---- MODULE Spec2Model ----
(***************************************************************************)
(* Pick & Place conveyor game (src/components/game/game-board.tsx): the    *)
(* simulation step `update`, the animation `loop`, the spawner and the     *)
(* vacuum toggle, as a state machine.                                      *)
(*                                                                         *)
(* Numbers.  The program computes in IEEE doubles; the model computes in   *)
(* integers:                                                               *)
(*   lengths     tenths of a CSS pixel (dpx)                               *)
(*   time        milliseconds                                              *)
(*   velocities  dpx per second                                            *)
(*   sin, cos    ten-thousandths                                           *)
(* Products of a rate and a time are divided by 1000 and truncated toward  *)
(* zero (Div).  An optional number that is `undefined` in the program is   *)
(* the value Undef.                                                        *)
(*                                                                         *)
(* Objects.  Items are heap objects: `obj` maps an object identity (oid,   *)
(* the allocation order) to the item's fields, `items` is itemsRef.current *)
(* (a sequence of references) and lifter.holding is a reference (0: null). *)
(* The item's own `id` field is a separate, random number.                 *)
(***************************************************************************)
EXTENDS Integers, Sequences, FiniteSets, TLC

\* ---------------------------------------------------------------- bounds

\* Wall-clock time between two animation frames, ms.
FrameGap == 40
\* Frames the environment lets pass after an input: one, a few, or many.
ShortBurst == 8
LongBurst == 20
MidBurst == 5
\* Frames of a whole round: 60 s at 40 ms, the first frame of no duration
\* and one frame past the end.
RoundFrames == 1502
\* Frames of a round up to two before the frame that crosses zero.
LastFrames == 1498
\* The two canvas widths of the model, px (the height follows: 16:9).
SmallCanvas == 128
BigCanvas == 500
\* A wrapper so narrow that the lifter does not fit above the belt.
TinyCanvas == 64
\* The canvas widths of a phone and of a tablet, upright and turned, px.
PhoneCanvas == 390
TabletCanvas == 768
WideCanvas == 1024
\* Gaps between two frame timestamps, ms: a short frame and a tab that was
\* in the background; frames at the same timestamp have gap 0.
ShortGap == 16
LongGap == 5000
\* A frame gap that does not divide the round, and the frames of its round.
OddGap == 33
OddRoundFrames == 1820
\* A burst of a few frames.
FewFrames == 3

\* ------------------------------------------------------ program constants

GAME_SECONDS == 60
\* useRef<number>(1500): nextSpawnDelayRef before the first round.
FIRST_SPAWN_DELAY == 1500
SPAWN_INTERVAL_MIN == 700
SPAWN_INTERVAL_MAX == 1400
ATTACH_GAP == 2
ATTACH_SIDE == -8
\* MAX_SWAY_ANGLE = 0.18 rad: its sine, cosine and tangent in ten-thousandths.
SWAY_SIN == 1790
SWAY_COS == 9838
SWAY_TAN == 1820
\* SWAY_FOLLOW = 0.12, in hundredths.
SWAY_FOLLOW == 12
\* PAD_SIDE_FRAC = 0.12, in hundredths; PAD_DOWN_FRAC = 0.
PAD_SIDE_FRAC == 12
PAD_DOWN_FRAC == 0
\* dt = Math.min(dt, 0.04), in ms.
DT_CLAMP == 40
\* the despawn margin, px
DESPAWN_MARGIN == 40
\* `undefined` for an optional number field (vy, landingY).
Undef == -999999

ItemTypes == <<"bottle", "pcb", "glass", "box">>

\* ---------------------------------------------------------------- helpers

Max(a, b) == IF a >= b THEN a ELSE b
Min(a, b) == IF a <= b THEN a ELSE b
Abs(a) == IF a >= 0 THEN a ELSE -a

\* Division truncated toward zero (b > 0).
Div(a, b) == IF a >= 0 THEN a \div b ELSE -((-a) \div b)

\* Math.floor(a / b) for b > 0.
Floor(a, b) == a \div b

clamp(v, min, max) == Max(min, Min(max, v))

\* Integer square root (floor), by bisection on [lo, hi].
RECURSIVE SqrtBetween(_, _, _)
SqrtBetween(n, lo, hi) ==
    IF lo >= hi THEN lo
    ELSE LET mid == (lo + hi + 1) \div 2
         IN IF mid * mid <= n THEN SqrtBetween(n, mid, hi)
                              ELSE SqrtBetween(n, lo, mid - 1)

ISqrt(n) == SqrtBetween(n, 0, 46340)

\* ------------------------------------------------- layout profile (flags)

\* The browser is not in fullscreen (useState(false)); the device is a
\* desktop browser, an iPhone or an iPad (isMobile is false on the desktop).
isFullscreen == FALSE

Devices == {"desktop", "ios", "ipad"}

\* isIOS is true on an iPad too (its user agent or its MacIntel platform
\* with touch points).
isIOS(dev) == dev \in {"ios", "ipad"}

isIPad(dev) == dev = "ipad"

\* ----------------------------------------------------------------- state

VARIABLES
    scaled,          \* scaledRef.current: [w, h] in px (dpr left out)
    conveyor,        \* conveyorRef.current: [y (dpx), speed (dpx/s)]
    targets,         \* targetsRef.current: sequence of Target records
    lifter,          \* lifterRef.current: [x, y, w, h, speed, vacuum, holding]
    lifterTarget,    \* lifterTargetRef.current: [x, y]
    lifterVel,       \* lifterVelRef.current: [vx, vy]
    anchorX,         \* anchorXRef.current
    items,           \* itemsRef.current: sequence of oids
    obj,             \* the items' fields, by oid
    keys,            \* keysRef.current: [left, right, up, down]
    analog,          \* analogInputRef.current: [x, y] in thousandths
    game,            \* gameRef.current: [score, timeLeft (ms), paused]
    started,         \* React state `started`
    countdown,       \* React state `countdown` (0: null)
    intervals,       \* countdown intervals (setInterval) not yet cleared
    gameOver,        \* React state `gameOver`
    finalScore,      \* React state `finalScore`
    gameOverFired,   \* gameOverFiredRef.current
    saving,          \* React state `saving`
    inflight,        \* saveScore calls waiting for the leaderboard insert
    anim,            \* the game loop: [running (the effect's flag), scheduled
                     \* (rafRef.current names a pending callback)]
    joy,             \* the Joystick: [mounted, dragging, vec (vecRef), raf
                     \* (rafRef set), loops (tick callbacks scheduled),
                     \* down (pointers on the pad)]
    sink,            \* what the round handed to its collaborators: [inserts,
                     \* refreshes, errors, outcome]
    sinceSpawn,      \* performance.now() - lastSpawnRef.current, saturated
    nextSpawnDelay,  \* nextSpawnDelayRef.current
    lastTsSet,       \* lastTsRef.current is non-zero
    endCount,        \* times the round-ended transition ran since the round began (history)
    env,             \* the environment: frames owed before the next input, inputs left
    trace            \* what the last step did (history, read by the properties)

vars == <<scaled, conveyor, targets, lifter, lifterTarget, lifterVel, anchorX,
          items, obj, keys, analog, game, started, countdown, intervals, gameOver,
          finalScore, gameOverFired, sinceSpawn, nextSpawnDelay, lastTsSet,
          endCount, saving, inflight, sink, joy, anim, env,
          trace>>

\* ------------------------------------------------------------ getSizeFor

\* base of getSizeFor in px: Math.max(smallScreen ? 20 : 26,
\* Math.floor(w * (smallScreen ? 0.028 : 0.03))) * itemScaleRef.current,
\* with itemScale 1.0 in this profile.
SizeBase(w) ==
    IF w < 500 THEN Max(20, Floor(w * 28, 1000))
               ELSE Max(26, Floor(w * 30, 1000))

\* getSizeFor(type): [w, h] in dpx (base * 0.9 px = base * 9 dpx).
getSizeFor(type, w) ==
    LET base == SizeBase(w)
    IN CASE type = "bottle" -> [w |-> base * 9,  h |-> base * 18]
         [] type = "pcb"    -> [w |-> base * 18, h |-> base * 9]
         [] type = "glass"  -> [w |-> base * 16, h |-> base * 11]
         [] type = "box"    -> [w |-> base * 12, h |-> base * 12]

\* ------------------------------------------------------------ setupLevel

\* The fraction of the canvas height at which the belt lies, in hundredths:
\* isIPad && !isFullscreen ? 0.66 : (isIOS && !isFullscreen ? 0.68 :
\* (isIOS ? 0.70 : 0.72)).
ConveyorFrac(dev) ==
    IF isIPad(dev) /\ ~isFullscreen THEN 66
    ELSE IF isIOS(dev) /\ ~isFullscreen THEN 68
    ELSE IF isIOS(dev) THEN 70 ELSE 72

\* conveyorRef.current.y = Math.floor(h * fraction), in dpx.
ConveyorY(h, dev) == 10 * Floor(h * ConveyorFrac(dev), 100)

\* isIOSSmall = isIOS && w < 430
isIOSSmall(w, dev) == isIOS(dev) /\ w < 430

\* targetW out of fullscreen; targetScale * canvasScale is 1.0 on the
\* desktop, 1.15 * 0.75 on an iPhone and 1.15 on an iPad.
TargetW(w, dev) ==
    Max(IF isIOSSmall(w, dev) THEN 60 ELSE IF w < 500 THEN 70 ELSE 100,
        CASE dev = "desktop" -> Floor(w * 12, 100)
          [] dev = "ios"     -> Floor(w * 77625, 1000000)
          [] dev = "ipad"    -> Floor(w * 1035, 10000))

TargetH(w, h, dev) ==
    Max(IF isIOSSmall(w, dev) THEN 32 ELSE IF w < 500 THEN 40 ELSE 50,
        CASE dev = "desktop" -> Floor(h * 9, 100)
          [] dev = "ios"     -> Floor(h * 560625, 10000000)
          [] dev = "ipad"    -> Floor(h * 7475, 100000))

TargetBaseY(w, h, dev) ==
    Floor(h * (IF isIOSSmall(w, dev) THEN 30 ELSE IF w < 500 THEN 34 ELSE 36),
          100)

TargetSpacing(dev) ==
    IF isIOS(dev) THEN <<20, 42, 62, 82>> ELSE <<22, 46, 65, 84>>

\* targetsRef.current of setupLevel, in dpx.
SetupTargets(w, h, dev) ==
    [i \in 1..4 |->
        [type |-> ItemTypes[i],
         x |-> 10 * Floor(w * TargetSpacing(dev)[i], 100) - 5 * TargetW(w, dev),
         y |-> 10 * TargetBaseY(w, h, dev),
         w |-> 10 * TargetW(w, dev),
         h |-> 10 * TargetH(w, h, dev)]]

\* No target: landingTarget null or undefined.
NoTarget == [type |-> "none", x |-> 0, y |-> 0, w |-> 0, h |-> 0]

\* gripW out of fullscreen; lifterScale * canvasScale is 1.0 on the desktop,
\* 1.2 * 0.75 on an iPhone and 1.2 on an iPad.
GripW(w, dev) ==
    Max(IF isIOSSmall(w, dev) THEN 50 ELSE IF w < 500 THEN 60 ELSE 72,
        CASE dev = "desktop" -> Floor(w * 9, 100)
          [] dev = "ios"     -> Floor(w * 675, 10000)
          [] dev = "ipad"    -> Floor(w * 9, 100))

GripH(w, dev) == Floor(GripW(w, dev) * 43, 100)

\* The lifter after setupLevel: size and position reset, the rest kept.
SetupLifter(l, w, h, dev) ==
    [l EXCEPT !.w = 10 * GripW(w, dev),
              !.h = 10 * GripH(w, dev),
              !.y = 10 * Floor(h * (IF isIOS(dev) THEN 6 ELSE 12), 100),
              !.x = 10 * Floor(w * (IF isIOS(dev) THEN 8 ELSE 14), 100)]

\* ------------------------------------------------------------ getHeadGeo

\* getHeadGeo(): the sway angle (as its sine and cosine) and the suction point.
getHeadGeo(l, anchor) ==
    LET tubeLen == Max(100, l.y)
        cx == l.x + l.w \div 2
        off == cx - anchor
        hyp == ISqrt(off * off + tubeLen * tubeLen)
        clamped == Abs(off) * 10000 > SWAY_TAN * tubeLen
        sinA == IF clamped THEN (IF off > 0 THEN SWAY_SIN ELSE -SWAY_SIN)
                           ELSE Div(off * 10000, hyp)
        cosA == IF clamped THEN SWAY_COS ELSE Div(tubeLen * 10000, hyp)
    IN [anchorX |-> anchor, tubeLen |-> tubeLen, sinA |-> sinA, cosA |-> cosA,
        bottomX |-> anchor - Div(sinA * tubeLen, 10000),
        bottomY |-> Div(cosA * tubeLen, 10000)]

\* ------------------------------------------------------------- spawnItem

\* The simulation state one step works on: `s` is a record
\*   [items, obj, score, holding, tr]
\* where tr is the history of the step (what was spawned, landed, probed
\* for a grab and despawned).

NoProbe == [active |-> FALSE, px |-> 0, py |-> 0, thr |-> 0, cand |-> <<>>,
            grabbed |-> 0, wasFalling |-> FALSE]

EmptyTrace(kind) ==
    [kind |-> kind, spawned |-> <<>>, landed |-> <<>>, probe |-> NoProbe,
     despawned |-> <<>>, dt |-> 0, dir |-> [x |-> 0, y |-> 0], since |-> 0]

\* The oids of s.items whose item is not grabbed, in array order.
NotGrabbed(s) == SelectSeq(s.items, LAMBDA o : ~s.obj[o].grabbed)

RECURSIVE MinX(_, _, _)
MinX(s, os, i) ==
    IF i > Len(os) THEN Undef
    ELSE LET rest == MinX(s, os, i + 1)
             x == s.obj[os[i]].x
         IN IF rest = Undef THEN x ELSE Min(x, rest)

\* BASE_GAP of computeSpawnXLeft, in dpx:
\* Math.max(60, Math.floor(newWidth * 1.5)).
BaseGap(newWidth) == 10 * Max(60, Floor(newWidth * 15, 100))

\* computeSpawnXLeft(newWidth)
computeSpawnXLeft(s, newWidth) ==
    LET existing == NotGrabbed(s)
        leftmostX == MinX(s, existing, 1)
    IN IF Len(existing) = 0 THEN -newWidth - 200
       ELSE Min(-newWidth - 200, leftmostX - newWidth - BaseGap(newWidth))

\* A new object: the least identity no live object has.
FreshOid(s) == CHOOSE n \in 1..(Cardinality(DOMAIN s.obj) + 1) : n \notin DOMAIN s.obj

\* A spawn height with the bottom of the item on the belt surface.
SpawnYFlush(conv, size) == conv.y - size.h

\* y: conveyor.y - size.h - 4
SpawnY(conv, size) == conv.y - size.h - 40

\* makeOne(), with the two Math.random() draws (type, id) given.
makeOne(s, cw, conv, type, id) ==
    LET size == getSizeFor(type, cw)
        x == computeSpawnXLeft(s, size.w)
        existing == NotGrabbed(s)
        it == [id |-> id, type |-> type, x |-> x,
               y |-> SpawnY(conv, size),
               w |-> size.w, h |-> size.h, vx |-> conv.speed,
               grabbed |-> FALSE, vy |-> Undef, landingY |-> Undef,
               landingTarget |-> NoTarget, landingEvaluated |-> FALSE,
               rotation |-> 0,
               age |-> 0, evals |-> 0]
        o == FreshOid(s)
        rec == [oid |-> o, w |-> size.w, x |-> x, it |-> it,
                hadExisting |-> Len(existing) > 0,
                leftmostX |-> MinX(s, existing, 1)]
    IN [s EXCEPT !.items = Append(@, o),
                 !.obj = [k \in DOMAIN @ \cup {o} |-> IF k = o THEN it ELSE @[k]],
                 !.tr.spawned = Append(@, rec)]

\* spawnItem(): makeOne(), and a second makeOne() when Math.random() < 0.35.
\* `draws` is the sequence of (type, id) draws, one or two long.
spawnItem(s, cw, conv, draws) ==
    IF Len(draws) = 1
    THEN makeOne(s, cw, conv, draws[1].type, draws[1].id)
    ELSE CHOOSE r \in {makeOne(s1, cw, conv, draws[2].type, draws[2].id) :
                          s1 \in {makeOne(s, cw, conv, draws[1].type, draws[1].id)}} :
             TRUE

\* ------------------------------------------------- update: lifter motion

\* An input step that never looks at the joystick.
InputDirDigital(k, a) ==
    [x |-> 1000 * ((IF k.right THEN 1 ELSE 0) - (IF k.left THEN 1 ELSE 0)),
     y |-> 1000 * ((IF k.down THEN 1 ELSE 0) - (IF k.up THEN 1 ELSE 0))]

\* The intended direction, in thousandths: the analog vector past the 0.1
\* deadzone, else the direction keys.
InputDir(k, a) ==
    IF Abs(a.x) > 100 \/ Abs(a.y) > 100
    THEN [x |-> a.x, y |-> a.y]
    ELSE [x |-> 1000 * ((IF k.right THEN 1 ELSE 0) - (IF k.left THEN 1 ELSE 0)),
          y |-> 1000 * ((IF k.down THEN 1 ELSE 0) - (IF k.up THEN 1 ELSE 0))]

\* lifterTargetRef after the input step and the clamps.
MoveTarget(t, dir, l, cw, conv, dt) ==
    [x |-> clamp(t.x + Div(dir.x * l.speed * dt, 1000000), 100, 10 * cw - l.w - 100),
     y |-> clamp(t.y + Div(dir.y * l.speed * dt, 1000000), 100, conv.y - l.h - 100)]

\* The spring: k = 12, d = 7; velocity first, then position.
SpringVel(v, t, l, dt) ==
    [vx |-> v.vx + Div((12 * (t.x - l.x) - 7 * v.vx) * dt, 1000),
     vy |-> v.vy + Div((12 * (t.y - l.y) - 7 * v.vy) * dt, 1000)]

SpringPos(l, v, dt) ==
    [l EXCEPT !.x = @ + Div(v.vx * dt, 1000), !.y = @ + Div(v.vy * dt, 1000)]

\* anchorXRef eases toward the gripper centre.
EaseAnchor(a, l) == a + Div((l.x + l.w \div 2 - a) * SWAY_FOLLOW, 100)

\* ---------------------------------------------------- update: item motion

\* gravity in dpx/s^2: Math.max(900, Math.floor(h * 2.0)) px/s^2
Gravity(h) == 10 * Max(900, 2 * h)

\* itemsRef.current.findIndex((i) => i.id === id): 0 when there is none.
RECURSIVE FindIndexFrom(_, _, _)
FindIndexFrom(s, id, i) ==
    IF i > Len(s.items) THEN 0
    ELSE IF s.obj[s.items[i]].id = id THEN i
    ELSE FindIndexFrom(s, id, i + 1)

\* splice(idx, 1)
Splice(seq, idx) ==
    [k \in 1..(Len(seq) - 1) |-> IF k < idx THEN seq[k] ELSE seq[k + 1]]

\* A landing that is evaluated on every update the item rests at landingY.
NeverEvaluated(it) == FALSE

\* if (!it.landingEvaluated): has this fall been evaluated already?
AlreadyEvaluated(it) == it.landingEvaluated

\* A landing on the belt that leaves the item falling: landingY is kept.
RejoinKeepsLandingY(it, conv) ==
    [it EXCEPT !.evals = @ + 1,
               !.landingTarget = NoTarget,
               !.landingEvaluated = FALSE,
               !.rotation = 0,
               !.vx = conv.speed]

\* A landing on the belt that leaves the item standing: vx stays 0.
RejoinStopped(it, conv) ==
    [it EXCEPT !.evals = @ + 1,
               !.landingY = Undef,
               !.landingTarget = NoTarget,
               !.landingEvaluated = FALSE,
               !.rotation = 0]

\* landed on conveyor -> rejoin belt
Rejoin(it, conv) ==
    [it EXCEPT !.evals = @ + 1,
               !.landingY = Undef,
               !.landingTarget = NoTarget,
               !.landingEvaluated = FALSE,
               !.rotation = 0,
               !.vx = conv.speed]

\* A score rule without the penalty for the wrong target.
LandingScoreNoPenalty(ty, t) == IF t.type = ty THEN 100 ELSE 0

\* The score change of a landing on target t of an item of type ty.
LandingScore(ty, t) == IF t.type = ty THEN 100 ELSE -50

\* The landing evaluation of item o (y has reached landingY), guarded by
\* landingEvaluated.
EvaluateLanding(s, o, conv) ==
    LET it == s.obj[o]
    IN IF AlreadyEvaluated(it) THEN s
       ELSE IF it.landingTarget # NoTarget
       THEN LET delta == LandingScore(it.type, it.landingTarget)
                idx == FindIndexFrom(s, it.id, 1)
                rec == [oid |-> o, type |-> it.type,
                        target |-> it.landingTarget.type, delta |-> delta,
                        removed |-> IF idx >= 1 THEN s.items[idx] ELSE 0,
                        nth |-> it.evals + 1]
            IN [s EXCEPT !.obj[o].landingEvaluated = TRUE,
                         !.obj[o].evals = @ + 1,
                         !.score = @ + delta,
                         !.items = IF idx >= 1 THEN Splice(@, idx) ELSE @,
                         !.tr.landed = Append(@, rec)]
       ELSE [s EXCEPT !.obj[o] = Rejoin(it, conv),
                      !.tr.landed = Append(@, [oid |-> o, type |-> it.type,
                                               target |-> "belt", delta |-> 0,
                                               removed |-> 0,
                                               nth |-> it.evals + 1])]

\* One iteration of `for (const it of items)` on item o.
MoveItem(s, o, conv, ch, dt) ==
    LET it == s.obj[o]
    IN IF it.grabbed THEN s
       ELSE IF it.landingY # Undef
       THEN LET vy1 == (IF it.vy = Undef THEN 0 ELSE it.vy) + Div(Gravity(ch) * dt, 1000)
                y1 == it.y + Div(vy1 * dt, 1000)
            IN IF y1 >= it.landingY
               THEN EvaluateLanding(
                        [s EXCEPT !.obj[o].y = it.landingY, !.obj[o].vy = 0,
                                  !.obj[o].vx = 0],
                        o, conv)
               ELSE [s EXCEPT !.obj[o].y = y1, !.obj[o].vy = vy1, !.obj[o].vx = 0]
       ELSE [s EXCEPT !.obj[o].x = @ + Div(it.vx * dt, 1000)]

\* The for-of loop from array index i on.  The array is live: the iterator
\* reads items[i] of the array as it is now, so a splice at or before i
\* moves the next item into slot i and the loop passes over it.
RECURSIVE MoveItemsFrom(_, _, _, _, _)
MoveItemsFrom(s, i, conv, ch, dt) ==
    IF i > Len(s.items) THEN s
    ELSE MoveItemsFrom(MoveItem(s, s.items[i], conv, ch, dt), i + 1, conv, ch, dt)

\* ------------------------------------------------------- update: the grab

\* distToRect, squared (dpx^2)
distToRect2(px, py, rx, ry, rw, rh) ==
    LET nx == clamp(px, rx, rx + rw)
        ny == clamp(py, ry, ry + rh)
    IN (px - nx) * (px - nx) + (py - ny) * (py - ny)

\* A grab without a reach threshold (bestDist starts beyond every item).
ReachUnbounded(l) == 40000

\* Twice the reach threshold, in dpx:
\* Math.max(24, Math.min(lifter.w, lifter.h) * (isFullscreen ? 0.75 : 0.6))
ReachThreshold2(l) ==
    Max(480, (Min(l.w, l.h) * (IF isFullscreen THEN 15 ELSE 12)) \div 10)

\* The squared distances of the items to the suction point, in array order.
Distances(s, geo) ==
    [k \in 1..Len(s.items) |->
        LET it == s.obj[s.items[k]]
        IN [oid |-> s.items[k], grabbed |-> it.grabbed,
            d2 |-> distToRect2(geo.bottomX, geo.bottomY, it.x, it.y, it.w, it.h)]]

\* A grab loop that takes the first item within reach and looks no further.
RECURSIVE NearestFirst(_, _, _, _)
NearestFirst(cand, i, nearest, best4) ==
    IF i > Len(cand) THEN nearest
    ELSE IF cand[i].grabbed THEN NearestFirst(cand, i + 1, nearest, best4)
    ELSE IF 4 * cand[i].d2 < best4 THEN cand[i].oid
    ELSE NearestFirst(cand, i + 1, nearest, best4)

\* `for (const it of items)` of the grab: nearest (0: null) and bestDist,
\* carried as best4 = 4 * bestDist^2, from index i on.
RECURSIVE NearestFrom(_, _, _, _)
NearestFrom(cand, i, nearest, best4) ==
    IF i > Len(cand) THEN nearest
    ELSE IF cand[i].grabbed THEN NearestFrom(cand, i + 1, nearest, best4)
    ELSE IF 4 * cand[i].d2 < best4
         THEN NearestFrom(cand, i + 1, cand[i].oid, 4 * cand[i].d2)
         ELSE NearestFrom(cand, i + 1, nearest, best4)

\* A grab phase that runs whether the vacuum is on or not.
ProbesAlways(l, holding) == holding = 0

\* lifter.vacuum && !lifter.holding
Probes(l, holding) == l.vacuum /\ holding = 0

\* if (lifter.vacuum && !lifter.holding) { ... grab the nearest in reach ... }
GrabPhase(s, l, anchor) ==
    IF ~Probes(l, s.holding) THEN s
    ELSE LET geo == getHeadGeo(l, anchor)
             thr == ReachThreshold2(l)
             cand == Distances(s, geo)
             nearest == NearestFrom(cand, 1, 0, thr * thr)
             probe == [active |-> TRUE, px |-> geo.bottomX, py |-> geo.bottomY,
                       thr |-> thr, cand |-> cand, grabbed |-> nearest,
                       wasFalling |-> nearest # 0 /\ s.obj[nearest].landingY # Undef]
         IN IF nearest = 0
            THEN [s EXCEPT !.tr.probe = probe]
            ELSE [s EXCEPT !.obj[nearest].grabbed = TRUE,
                           !.holding = nearest,
                           !.tr.probe = probe]

\* An attach that leaves the landing fields of the held item as they are.
KeepLanding(it) == it

\* lifter.holding.landingY = undefined; landingTarget = null;
\* landingEvaluated = false
ClearLanding(it) ==
    [it EXCEPT !.landingY = Undef,
               !.landingTarget = NoTarget,
               !.landingEvaluated = FALSE]

\* if (lifter.holding) { ... attach the item under the pad ... }
AttachPhase(s, l, anchor) ==
    IF s.holding = 0 THEN s
    ELSE LET geo == getHeadGeo(l, anchor)
             o == s.holding
             it == s.obj[o]
             gap == 10 * ATTACH_GAP + Div(l.h * PAD_DOWN_FRAC, 100)
             sideNudge == 10 * ATTACH_SIDE + Div(l.w * PAD_SIDE_FRAC, 100)
             halfH == it.h \div 2
             topCx == geo.bottomX - Div(gap * geo.sinA, 10000)
                                  + Div(sideNudge * geo.cosA, 10000)
             topCy == geo.bottomY + Div(gap * geo.cosA, 10000)
                                  + Div(sideNudge * geo.sinA, 10000)
             cx == topCx - Div(halfH * geo.sinA, 10000)
             cy == topCy + Div(halfH * geo.cosA, 10000)
         IN [s EXCEPT !.obj[o] = ClearLanding(
                                     [it EXCEPT !.x = cx - it.w \div 2,
                                                !.y = cy - it.h \div 2,
                                                !.rotation = geo.sinA,
                                                !.vx = 0,
                                                !.vy = 0])]

\* ----------------------------------------------------- update: despawn

\* A despawn test that looks at the left edge only.
OffScreenLeftOnly(it, cw) ==
    ~it.grabbed /\ it.x < -it.w - 10 * DESPAWN_MARGIN

\* The despawn test on one item.
OffScreen(it, cw) ==
    ~it.grabbed /\ (it.x > 10 * (cw + DESPAWN_MARGIN)
                    \/ it.x < -it.w - 10 * DESPAWN_MARGIN)

\* for (let i = items.length - 1; i >= 0; i--) splice when off screen
RECURSIVE DespawnFrom(_, _, _)
DespawnFrom(s, i, cw) ==
    IF i < 1 THEN s
    ELSE LET o == s.items[i]
         IN IF OffScreen(s.obj[o], cw)
            THEN DespawnFrom(
                    [s EXCEPT !.items = Splice(@, i),
                              !.tr.despawned =
                                  Append(@, [oid |-> o, age |-> s.obj[o].age,
                                             x |-> s.obj[o].x])],
                    i - 1, cw)
            ELSE DespawnFrom(s, i - 1, cw)

\* Every item that came through the step has lived through one more update
\* (history; counted up to 2).
Older(s) ==
    [s EXCEPT !.obj = [o \in DOMAIN @ |-> [@[o] EXCEPT !.age = Min(@ + 1, 2)]]]

\* The objects still referenced: by the array or by lifter.holding.
Collect(s) ==
    LET live == {s.items[k] : k \in 1..Len(s.items)}
                \cup (IF s.holding = 0 THEN {} ELSE {s.holding})
    IN [s EXCEPT !.obj = [o \in live |-> @[o]]]

\* ---------------------------------------------------------------- update

NoKeys == [left |-> FALSE, right |-> FALSE, up |-> FALSE, down |-> FALSE]

\* The least id no live item has (a Math.random() draw that collides with
\* nothing).
FreshId(s) ==
    CHOOSE n \in 1..(Cardinality(DOMAIN s.obj) + 1) :
        \A o \in DOMAIN s.obj : s.obj[o].id # n

\* The (type, id) draws of one makeOne(): the types the environment draws
\* from, and an id that is either new or, in the "same" mode, always 1.
OneDraw(s) ==
    {[type |-> t, id |-> i] :
        t \in env.types,
        i \in (IF env.ids = "same" THEN {1} ELSE {FreshId(s)})}

\* The draws of one spawnItem(): one makeOne(), or two.
DrawSeqs(s) ==
    {<<d>> : d \in OneDraw(s)}
    \cup UNION {{<<d, e>> : e \in OneDraw(makeOne(s, scaled.w, conveyor, d.type, d.id))} :
                    d \in OneDraw(s)}

\* The simulation state update starts from.
StepState(g) == [items |-> items, obj |-> obj, score |-> g.score,
                 holding |-> lifter.holding, tr |-> EmptyTrace("update")]

\* update(dt): g is gameRef.current as loop hands it over, `since` is
\* performance.now() - lastSpawnRef.current, `draws` and `delay` are the
\* random draws of the spawn (read only when the spawn is due).
\* A spawn timer that fires at half the threshold.
SpawnDueHalfway(since, threshold) == 2 * since >= threshold

\* now - lastSpawnRef.current >= nextSpawnDelayRef.current
SpawnDue(since, threshold) == since >= threshold

\* rand(min, max) = Math.floor(Math.random() * (max - min + 1)) + min, with
\* Math.random() = r / 1000, r in 0..999.
rand(min, max, r) == Floor(r * (max - min + 1), 1000) + min

update(g, dt, since, draws, delay) ==
    LET spawnDue == SpawnDue(since, nextSpawnDelay)
    IN \E d1 \in {InputDir(keys, analog)} :
       \E t1 \in {MoveTarget(lifterTarget, d1, lifter, scaled.w, conveyor, dt)} :
       \E v1 \in {SpringVel(lifterVel, t1, lifter, dt)} :
       \E l1 \in {SpringPos(lifter, v1, dt)} :
       \E a1 \in {EaseAnchor(anchorX, l1)} :
       \E s1 \in {IF spawnDue
                  THEN spawnItem(StepState(g), scaled.w, conveyor, draws)
                  ELSE StepState(g)} :
       \E s2 \in {MoveItemsFrom(s1, 1, conveyor, scaled.h, dt)} :
       \E s3 \in {GrabPhase(s2, l1, a1)} :
       \E s4 \in {AttachPhase(s3, l1, a1)} :
       \E s5 \in {DespawnFrom(s4, Len(s4.items), scaled.w)} :
       \E s6 \in {Collect(Older(s5))} :
          /\ lifterTarget' = t1
          /\ lifterVel' = v1
          /\ lifter' = [l1 EXCEPT !.holding = s6.holding]
          /\ anchorX' = a1
          /\ sinceSpawn' = IF spawnDue THEN 0 ELSE since
          /\ nextSpawnDelay' = IF spawnDue THEN delay ELSE nextSpawnDelay
          /\ items' = s6.items
          /\ obj' = s6.obj
          /\ game' = [g EXCEPT !.score = s6.score]
          /\ trace' = [s6.tr EXCEPT !.dt = dt, !.dir = d1, !.since = since]

\* ------------------------------------------------------------------ loop

\* A round end without the latch.
roundEndedNoLatch(fired, g) == g.timeLeft <= 0

\* A latch that records the score the frame started with.
FinalScoreBefore(before, after) == before.score

\* setFinalScore(g.score) of the round-ended transition: the score as the
\* frame's update left it.
FinalScore(before, after) == after.score

\* if (!gameOverFiredRef.current && g.timeLeft <= 0): the round has ended and
\* the transition has not run yet.
roundEnded(fired, g) == ~fired /\ g.timeLeft <= 0

\* A gate of the frame that looks at the clock only.
RunsWithTime(g) == g.timeLeft > 0

\* A gate of the frame that looks at the pause only.
RunsUnpaused(g) == ~g.paused

\* if (!g.paused && g.timeLeft > 0): the frame advances the round.
Runs(g) == ~g.paused /\ g.timeLeft > 0

\* A frame that takes no time off the clock.
FrameDtStalled(gap, set) == 0

\* dt of a frame without the clamp.
FrameDtUnclamped(gap, set) == IF set THEN gap ELSE 0

\* lastTs = lastTsRef.current || ts; dt = Math.min((ts - lastTs) / 1000,
\* 0.04), in ms: 0 on the first frame.
FrameDt(gap, set) == IF set THEN Min(gap, DT_CLAMP) ELSE 0

\* One animation frame: loop(ts), `gap` ms after the frame before.
loop(gap, draws, delay) ==
    LET dt == FrameDt(gap, lastTsSet)
        since == Min(sinceSpawn + gap, FIRST_SPAWN_DELAY)
        run == Runs(game)
    IN /\ lastTsSet' = TRUE
       /\ IF run
          THEN update([game EXCEPT !.timeLeft = @ - dt], dt, since, draws, delay)
          ELSE /\ UNCHANGED <<lifter, lifterTarget, lifterVel, anchorX, items, obj,
                              nextSpawnDelay, game>>
               /\ sinceSpawn' = since
               /\ trace' = [EmptyTrace("frame") EXCEPT !.dt = dt]
       /\ IF roundEnded(gameOverFired, game')
          THEN /\ gameOverFired' = TRUE
               /\ finalScore' = FinalScore(game, game')
               /\ gameOver' = TRUE
               /\ endCount' = endCount + 1
          ELSE UNCHANGED <<gameOverFired, finalScore, gameOver, endCount>>
       /\ UNCHANGED <<scaled, conveyor, targets, keys, analog, started, countdown, intervals>>

\* Does the next frame run update, and does that update spawn?
SpawnsNext(gap) ==
    /\ Runs(game)
    /\ SpawnDue(Min(sinceSpawn + gap, FIRST_SPAWN_DELAY), nextSpawnDelay)

\* A cleanup of the effect that stops nothing.
teardownLeavesLoop(a) == a

\* The cleanup of the game-loop effect: running = false and
\* cancelAnimationFrame(rafRef.current), which names the pending callback.
teardown(a) == [running |-> FALSE, scheduled |-> FALSE]

\* The pending callback of the loop runs: it returns at once when the
\* effect is no longer running, and schedules itself again otherwise.
Loop ==
    /\ env.idle > 0 /\ anim.scheduled
    /\ env' = [env EXCEPT !.idle = @ - 1]
    /\ IF anim.running
       THEN /\ \E gap \in env.gaps :
                  IF SpawnsNext(gap)
                  THEN \E draws \in DrawSeqs(StepState(game)),
                          delay \in env.delays :
                           loop(gap, draws, delay)
                  ELSE loop(gap, <<>>, nextSpawnDelay)
            /\ UNCHANGED anim
       ELSE /\ anim' = [anim EXCEPT !.scheduled = FALSE]
            /\ trace' = EmptyTrace("stopped")
            /\ UNCHANGED <<scaled, conveyor, targets, lifter, lifterTarget,
                           lifterVel, anchorX, items, obj, keys, analog, game,
                           started, countdown, intervals, gameOver, finalScore,
                           gameOverFired, sinceSpawn, nextSpawnDelay,
                           lastTsSet, endCount>>
    /\ UNCHANGED <<saving, inflight, sink, joy>>

\* ---------------------------------------------------------- toggleVacuum

\* targetsRef.current.find((t) => cx >= t.x && cx <= t.x + t.w)
FindTarget(ts, cx) ==
    LET hit == {i \in 1..Len(ts) : cx >= ts[i].x /\ cx <= ts[i].x + ts[i].w}
    IN IF hit = {} THEN NoTarget
       ELSE ts[CHOOSE i \in hit : \A j \in hit : i <= j]

\* A drop that ignores the targets and always falls to the belt.
DroppedToBelt(it, l, anchor, ts, conv) ==
    [it EXCEPT !.grabbed = FALSE, !.rotation = 0, !.vx = 0, !.vy = 0,
               !.landingY = conv.y - it.h,
               !.landingTarget = NoTarget,
               !.landingEvaluated = FALSE,
               !.evals = 0]

\* A drop that forgets dropped.grabbed = false.
DroppedStillGrabbed(it, l, anchor, ts, conv) ==
    [DroppedToBelt(it, l, anchor, ts, conv) EXCEPT !.grabbed = TRUE]

\* The drop of toggleVacuum: the fields of the released item.
Dropped(it, l, anchor, ts, conv) ==
    LET cx == getHeadGeo(l, anchor).bottomX
        t == FindTarget(ts, cx)
    IN [it EXCEPT !.grabbed = FALSE,
                  !.rotation = 0,
                  !.vx = 0,
                  !.vy = 0,
                  !.landingY = IF t # NoTarget THEN t.y - it.h ELSE conv.y - it.h,
                  !.landingTarget = t,
                  !.landingEvaluated = FALSE,
                  !.evals = 0]

\* A guard that looks at the clock only.
VacuumBlockedByTime(g, st) == g.timeLeft <= 0

\* The early returns of toggleVacuum: g.paused || g.timeLeft <= 0, then
\* !started.
VacuumBlocked(g, st) == g.paused \/ g.timeLeft <= 0 \/ ~st

\* toggleVacuum()
toggleVacuum ==
    IF VacuumBlocked(game, started)
    THEN UNCHANGED <<lifter, obj, trace>>
    ELSE LET on == ~lifter.vacuum
             o == lifter.holding
         IN /\ trace' = EmptyTrace(IF ~on /\ o # 0 THEN "drop" ELSE "toggle")
            /\ IF ~on /\ o # 0
               THEN /\ lifter' = [lifter EXCEPT !.vacuum = on, !.holding = 0]
                    /\ obj' = [obj EXCEPT
                                 ![o] = Dropped(@, lifter, anchorX, targets, conveyor)]
               ELSE /\ lifter' = [lifter EXCEPT !.vacuum = on]
                    /\ obj' = obj

\* ------------------------------------------------------------- key input

\* The joystick of the mobile controls (not iOS): travel radius and deadzone
\* in px.
JOY_RADIUS == 42
JOY_DEAD == 4

\* Joystick.updateFromEvent for a pointer (dx, dy) px from the centre of the
\* pad: the vector handed to onVector, in thousandths.  Lengths are in
\* hundredths of a px.
updateFromEvent(dx, dy) ==
    LET len == ISqrt(10000 * (dx * dx + dy * dy))
        max == 100 * JOY_RADIUS
        cx == IF len > max THEN Div(100 * dx * max, len) ELSE 100 * dx
        cy == IF len > max THEN Div(100 * dy * max, len) ELSE 100 * dy
        mag == Div(1000 * Max(0, len - 100 * JOY_DEAD), max - 100 * JOY_DEAD)
    IN [x |-> IF len > 0 THEN Div(cx * mag, len) ELSE 0,
        y |-> IF len > 0 THEN Div(cy * mag, len) ELSE 0]

\* handleDirChange("analog", v): the vector of the joystick is stored.
onVector(v) == analog' = v

\* The Joystick after mounting: no pointer on the pad, no tick scheduled.
NoJoy ==
    [mounted |-> TRUE, dragging |-> FALSE, vec |-> [x |-> 0, y |-> 0],
     raf |-> FALSE, loops |-> 0, down |-> 0]

\* onPointerDown: the vector of the pointer, and a new tick loop whose
\* handle overwrites rafRef.current, whatever it held.
onPointerDown(dx, dy) ==
    \E v \in {updateFromEvent(dx, dy)} :
       /\ onVector(v)
       /\ joy' = [joy EXCEPT !.dragging = TRUE, !.vec = v, !.raf = TRUE,
                             !.loops = @ + 1, !.down = @ + 1]

\* onPointerMove: nothing unless dragging.
onPointerMove(dx, dy) ==
    \E v \in {updateFromEvent(dx, dy)} :
       /\ joy.dragging
       /\ onVector(v)
       /\ joy' = [joy EXCEPT !.vec = v]

\* cancelAnimationFrame(rafRef.current) when rafRef.current is set: the
\* callback it names is taken off the schedule.
CancelRaf(j) ==
    [j EXCEPT !.raf = FALSE, !.loops = IF j.raf THEN @ - 1 ELSE @]

\* onPointerUp and onPointerCancel.
onPointerUp ==
    /\ onVector([x |-> 0, y |-> 0])
    /\ joy' = [CancelRaf(joy) EXCEPT !.dragging = FALSE,
                                     !.vec = [x |-> 0, y |-> 0],
                                     !.down = @ - 1]

\* tick: a scheduled callback of a drag loop runs, hands the vector on and
\* schedules itself again (rafRef.current names the new callback).
tick ==
    /\ joy.loops > 0
    /\ onVector(joy.vec)
    /\ joy' = [joy EXCEPT !.raf = TRUE]

\* The cleanup of the Joystick at unmount; the pointers go with the pad.
unmountJoystick ==
    joy' = [CancelRaf(joy) EXCEPT !.mounted = FALSE, !.down = 0]

\* onKeyDown / onKeyUp of an arrow key (pressed: down, not pressed: up).
onKey(k, pressed) ==
    /\ ~gameOver
    /\ keys' = [keys EXCEPT ![k] = pressed]

\* -------------------------------------------------------------- onResize

\* h = Math.floor((w * 9) / 16), at least minH (420 on an iPad, 350 on an
\* iPhone, 0 on the desktop); the viewport is tall enough not to cap it, and
\* the width stays the wrapper's.
CanvasH(w, dev) ==
    Max(IF isIPad(dev) THEN 420 ELSE IF isIOS(dev) THEN 350 ELSE 0,
        Floor(w * 9, 16))

\* A rescale that sets the landing height of every item, pending or not.
RescaleItemLanding(it, prev, w, h, newConveyorY) ==
    LET size == getSizeFor(it.type, w)
    IN [it EXCEPT !.x = Div(it.x * w, prev.w),
                  !.w = size.w,
                  !.h = size.h,
                  !.y = Div(it.y * h, prev.h),
                  !.landingY = newConveyorY - size.h]

\* One item of the rescale loop of onResize.
RescaleItem(it, prev, w, h, newConveyorY) ==
    LET itemBottomY == it.y + it.h
        wasOnConveyor == /\ Abs(10 * itemBottomY - prev.h * 72) <= 2000
                         /\ (it.vy = Undef \/ it.vy = 0)
                         /\ ~it.grabbed
        size == getSizeFor(it.type, w)
    IN [it EXCEPT !.x = Div(it.x * w, prev.w),
                  !.w = size.w,
                  !.h = size.h,
                  !.y = IF wasOnConveyor THEN newConveyorY - size.h
                                         ELSE Div(it.y * h, prev.h),
                  !.landingY = IF it.landingY # Undef THEN newConveyorY - size.h
                                                      ELSE Undef]

\* The callback of onResize for a wrapper `w` px wide.
onResize(w) ==
    LET h == CanvasH(w, env.device)
        prev == scaled
        inArray == {items[k] : k \in 1..Len(items)}
    IN /\ ~(prev.w = w /\ prev.h = h)
       /\ scaled' = [w |-> w, h |-> h]
       /\ conveyor' = [conveyor EXCEPT !.y = ConveyorY(h, env.device)]
       /\ targets' = SetupTargets(w, h, env.device)
       /\ lifter' = SetupLifter(lifter, w, h, env.device)
       /\ lifterTarget' = [x |-> lifter'.x, y |-> lifter'.y]
       /\ anchorX' = lifter'.x + lifter'.w \div 2
       /\ obj' = [o \in DOMAIN obj |->
                    IF o \in inArray
                    THEN RescaleItem(obj[o], prev, w, h, ConveyorY(h, env.device))
                    ELSE obj[o]]
       /\ trace' = EmptyTrace("resize")

\* ------------------------------------------------- startGameWithCountdown

\* The Start button: setCountdown(3) and the interval.
startGameWithCountdown ==
    /\ ~started /\ countdown = 0 /\ ~gameOver
    /\ countdown' = 3
    /\ intervals' = intervals + 1

\* The interval callback while the count is above 1.
countdownTick ==
    /\ intervals > 0
    /\ countdown > 1
    /\ countdown' = countdown - 1
    /\ UNCHANGED intervals

\* The interval callback at prev === null || prev <= 1: the interval is
\* cleared and the round starts.
startRound(draws1, again, draws2, delay) ==
    /\ intervals > 0
    /\ countdown <= 1
    /\ countdown' = 0
    /\ intervals' = intervals - 1
    /\ \E s1 \in {spawnItem([items |-> <<>>, obj |-> obj, score |-> 0, holding |-> 0,
                             tr |-> EmptyTrace("start")],
                            scaled.w, conveyor, draws1)} :
       \E s2 \in {IF again THEN spawnItem(s1, scaled.w, conveyor, draws2) ELSE s1} :
       \E s3 \in {Collect(s2)} :
          /\ items' = s3.items
          /\ obj' = s3.obj
          /\ trace' = s3.tr
    /\ lifter' = [lifter EXCEPT !.holding = 0, !.vacuum = FALSE]
    /\ keys' = NoKeys
    /\ game' = [score |-> 0, timeLeft |-> 1000 * GAME_SECONDS, paused |-> FALSE]
    /\ started' = TRUE
    /\ gameOver' = FALSE
    /\ gameOverFired' = FALSE
    /\ endCount' = 0
    /\ sinceSpawn' = 0
    /\ nextSpawnDelay' = delay

\* restartGame() as the Restart button of the HUD calls it (onRestart), at
\* any moment: no interval is cleared.
onRestart ==
    /\ saving' = FALSE
    /\ gameOver' = FALSE
    /\ started' = FALSE
    /\ countdown' = 0
    /\ gameOverFired' = FALSE
    /\ game' = [score |-> 0, timeLeft |-> 1000 * GAME_SECONDS, paused |-> TRUE]
    /\ UNCHANGED intervals

\* restartGame(): the Play Again button of the game-over screen.
restartGame ==
    /\ gameOver /\ ~saving
    /\ onRestart

\* Nothing handed to the leaderboard yet: the calls of
\* supabase.from("leaderboard").insert, of onLeaderboardUpdate and of
\* console.error since the round started, and how the last insert ended.
NoSink ==
    [inserts |-> 0, refreshes |-> 0, errors |-> 0, outcome |-> "none",
     calls |-> {}]

\* saveScore() up to its await, with a name and a company filled in: it has
\* no guard of its own against a second call.
saveScore ==
    /\ saving' = TRUE
    /\ inflight' = inflight + 1
    /\ sink' = [sink EXCEPT !.inserts = @ + 1]

\* The Save button without the `!saving` of its onTouchEnd.
onSaveUnguarded(via) ==
    /\ gameOver
    /\ saveScore

\* The Save button of the game-over screen.  onClick calls saveScore() and
\* the browser delivers no click to a disabled button (disabled = saving);
\* onTouchEnd calls it under `!saving`.  An activation that is not let
\* through changes nothing.
onSave(via) ==
    /\ gameOver
    /\ IF via = "click"
       THEN IF saving THEN UNCHANGED <<saving, inflight, sink>> ELSE saveScore
       ELSE IF ~saving THEN saveScore ELSE UNCHANGED <<saving, inflight, sink>>

\* The outcomes of the insert: a result without error, a result with an
\* error, an exception.
InsertOutcomes == {"ok", "error", "thrown"}

\* What saveScore() calls of its caller once the insert has returned: the
\* component's only callback, on success; a failure goes to console.error.
UpwardCalls(outcome) ==
    IF outcome = "ok" THEN {"onLeaderboardUpdate"} ELSE {}

\* saveScore() after its await: the leaderboard is refreshed on success and
\* the failure logged otherwise; either way the game-over screen is left and
\* the game state reset.
saveScoreDone(outcome) ==
    /\ inflight > 0
    /\ inflight' = inflight - 1
    /\ sink' = [sink EXCEPT !.refreshes = IF outcome = "ok" THEN @ + 1 ELSE @,
                            !.errors = IF outcome = "ok" THEN @ ELSE @ + 1,
                            !.outcome = outcome,
                            !.calls = UpwardCalls(outcome)]
    /\ saving' = FALSE
    /\ gameOver' = FALSE
    /\ started' = FALSE
    /\ gameOverFired' = FALSE
    /\ game' = [score |-> 0, timeLeft |-> 1000 * GAME_SECONDS, paused |-> TRUE]

\* ----------------------------------------------------------- environment

\* What the player and the browser do.  After an input the environment lets
\* a burst of frames pass; it has a budget of inputs of each kind, draws the
\* item types, ids and spawn delays from the sets of its scenario, and
\* presses only the keys of its scenario.
Scenarios ==
    { [device |-> "desktop", widths |-> {SmallCanvas, BigCanvas},
       w |-> SmallCanvas, types |-> {"bottle", "box"}, ids |-> "fresh",
       delays |-> {SPAWN_INTERVAL_MIN}, dirs |-> {},
       starts |-> 1, toggles |-> 3, presses |-> 0, resizes |-> 1,
       saves |-> 0, sticks |-> 0, points |-> {},
       bursts |-> {1, ShortBurst}],
      [device |-> "desktop", widths |-> {SmallCanvas, BigCanvas},
       w |-> SmallCanvas, types |-> {"bottle"}, ids |-> "same",
       delays |-> {SPAWN_INTERVAL_MIN}, dirs |-> {},
       starts |-> 1, toggles |-> 2, presses |-> 0, resizes |-> 0,
       saves |-> 0, sticks |-> 0, points |-> {},
       bursts |-> {1, ShortBurst, LongBurst}],
      [device |-> "desktop", widths |-> {SmallCanvas, BigCanvas},
       w |-> BigCanvas, types |-> {"pcb"}, ids |-> "fresh",
       delays |-> {SPAWN_INTERVAL_MIN}, dirs |-> {"down", "left"},
       starts |-> 1, toggles |-> 3, presses |-> 2, resizes |-> 0,
       saves |-> 0, sticks |-> 0, points |-> {},
       bursts |-> {1, LongBurst}],
      [device |-> "desktop", widths |-> {SmallCanvas, BigCanvas},
       w |-> BigCanvas, types |-> {"pcb", "glass"}, ids |-> "fresh",
       delays |-> {SPAWN_INTERVAL_MIN, SPAWN_INTERVAL_MAX}, dirs |-> {},
       starts |-> 1, toggles |-> 1, presses |-> 0, resizes |-> 1,
       saves |-> 0, sticks |-> 0, points |-> {},
       bursts |-> {1, LongBurst}] }

\* The scenario of a whole round: the player starts, toggles the vacuum at
\* most once and lets the clock run out, twice over; after the first round
\* the player plays again or saves the score.
RoundScenarios ==
    { [device |-> "desktop", widths |-> {SmallCanvas, BigCanvas},
       w |-> SmallCanvas, types |-> {"bottle"}, ids |-> "fresh",
       delays |-> {SPAWN_INTERVAL_MAX}, dirs |-> {},
       starts |-> 2, toggles |-> 1, presses |-> 0, resizes |-> 0,
       saves |-> 2, sticks |-> 0, points |-> {},
       bursts |-> {1, RoundFrames}] }

\* The scenario of a drop near the belt: the player drives the lifter down
\* and to the left, grabs, lets go, and switches the vacuum on again after
\* one, five or twenty frames.
DropScenarios ==
    { [device |-> "desktop", widths |-> {SmallCanvas, BigCanvas},
       w |-> BigCanvas, types |-> {"pcb"}, ids |-> "fresh",
       delays |-> {SPAWN_INTERVAL_MIN}, dirs |-> {"down", "left"},
       starts |-> 1, toggles |-> 3, presses |-> 2, resizes |-> 0,
       saves |-> 0, sticks |-> 0, points |-> {},
       bursts |-> {1, MidBurst, LongBurst}] }

\* The scenarios of a player on the joystick: pointers inside the deadzone,
\* inside the pad and out of it (the pad captures the pointer), with one
\* arrow key at hand; and a wrapper only TinyCanvas px wide.
StickScenarios ==
    { [device |-> "desktop", widths |-> {SmallCanvas, BigCanvas},
       w |-> BigCanvas, types |-> {"pcb"}, ids |-> "fresh",
       delays |-> {SPAWN_INTERVAL_MIN}, dirs |-> {"left"},
       starts |-> 1, toggles |-> 0, presses |-> 1, resizes |-> 0,
       saves |-> 0, sticks |-> 2,
       points |-> {<<6, 6>>, <<30, 0>>, <<2 * JOY_RADIUS, 0>>, <<0, -20>>},
       bursts |-> {1, ShortBurst}],
      [device |-> "desktop", widths |-> {SmallCanvas, BigCanvas},
       w |-> TinyCanvas, types |-> {"bottle"}, ids |-> "fresh",
       delays |-> {SPAWN_INTERVAL_MIN}, dirs |-> {"down"},
       starts |-> 1, toggles |-> 0, presses |-> 1, resizes |-> 0,
       saves |-> 0, sticks |-> 1,
       points |-> {<<0, 30>>},
       bursts |-> {1, ShortBurst}] }

\* The scenarios of a resize: a desktop window, an iPhone and an iPad whose
\* wrapper changes its width while items slide on the belt.
ResizeScenarios ==
    { [device |-> d[1], widths |-> {d[2], WideCanvas},
       w |-> d[2], types |-> {"box"}, ids |-> "fresh",
       delays |-> {SPAWN_INTERVAL_MIN}, dirs |-> {},
       starts |-> 1, toggles |-> 1, presses |-> 0, resizes |-> 2,
       saves |-> 0, sticks |-> 0, points |-> {},
       bursts |-> {1, ShortBurst}] :
      d \in {<<"desktop", BigCanvas>>, <<"ios", PhoneCanvas>>,
             <<"ipad", TabletCanvas>>} }

\* The scenario of fingers on the joystick: up to three pointer events, two
\* lifts and the controls leaving the page.
JoyScenarios ==
    { [device |-> "desktop", widths |-> {BigCanvas},
       w |-> BigCanvas, types |-> {"pcb"}, ids |-> "fresh",
       delays |-> {SPAWN_INTERVAL_MIN}, dirs |-> {},
       starts |-> 1, toggles |-> 0, presses |-> 0, resizes |-> 0,
       saves |-> 0, sticks |-> 3, lifts |-> 2, unmounts |-> 1,
       points |-> {<<30, 0>>, <<0, -20>>},
       bursts |-> {1}] }

\* The scenarios of the clock: frames at uneven timestamps around a toggle
\* of the vacuum, with the component unmounted at some moment, and two
\* whole rounds at OddGap ms a frame, with Play
\* Again or Save between them.
ClockScenarios ==
    { [device |-> "desktop", widths |-> {SmallCanvas},
       w |-> SmallCanvas, types |-> {"bottle"}, ids |-> "fresh",
       delays |-> {rand(SPAWN_INTERVAL_MIN, SPAWN_INTERVAL_MAX, r) :
                      r \in {0, 999}},
       dirs |-> {},
       starts |-> 1, toggles |-> 1, presses |-> 0, resizes |-> 0,
       saves |-> 0, sticks |-> 0, points |-> {}, teardowns |-> 1,
       gaps |-> {0, ShortGap, LongGap},
       bursts |-> {1, FewFrames}],
      [device |-> "desktop", widths |-> {SmallCanvas},
       w |-> SmallCanvas, types |-> {"bottle"}, ids |-> "fresh",
       delays |-> {rand(SPAWN_INTERVAL_MIN, SPAWN_INTERVAL_MAX, 500)},
       dirs |-> {},
       starts |-> 2, toggles |-> 0, presses |-> 0, resizes |-> 0,
       saves |-> 1, sticks |-> 0, points |-> {},
       gaps |-> {OddGap},
       bursts |-> {1, OddRoundFrames}] }

After(e) == \E n \in env.bursts : env' = [e EXCEPT !.idle = n]

\* ------------------------------------------------------------------ Init

InitWith(sc) ==
        LET w == sc.w
            h == CanvasH(w, sc.device)
            l == SetupLifter([x |-> 1200, y |-> 800, w |-> 960, h |-> 560,
                              speed |-> 3000, vacuum |-> FALSE, holding |-> 0],
                             w, h, sc.device)
        IN /\ scaled = [w |-> w, h |-> h]
           /\ conveyor = [y |-> ConveyorY(h, sc.device), speed |-> 1500]
           /\ targets = SetupTargets(w, h, sc.device)
           /\ lifter = l
           /\ lifterTarget = [x |-> l.x, y |-> l.y]
           /\ lifterVel = [vx |-> 0, vy |-> 0]
           /\ anchorX = l.x + l.w \div 2
           /\ items = <<>>
           /\ obj = [o \in {} |-> 0]
           /\ keys = NoKeys
           /\ analog = [x |-> 0, y |-> 0]
           /\ game = [score |-> 0, timeLeft |-> 1000 * GAME_SECONDS, paused |-> TRUE]
           /\ started = FALSE
           /\ countdown = 0
           /\ intervals = 0
           /\ gameOver = FALSE
           /\ finalScore = 0
           /\ gameOverFired = FALSE
           /\ saving = FALSE
           /\ inflight = 0
           /\ sink = NoSink
           /\ joy = NoJoy
           /\ anim = [running |-> TRUE, scheduled |-> TRUE]
           /\ sinceSpawn = 0
           /\ nextSpawnDelay = FIRST_SPAWN_DELAY
           /\ lastTsSet = FALSE
           /\ endCount = 0
           /\ env = [idle |-> 0, starts |-> sc.starts, toggles |-> sc.toggles,
                     presses |-> sc.presses, resizes |-> sc.resizes,
                     sticks |-> sc.sticks, points |-> sc.points,
                     saves |-> sc.saves,
                     types |-> sc.types, ids |-> sc.ids, delays |-> sc.delays,
                     dirs |-> sc.dirs, bursts |-> sc.bursts,
                     device |-> sc.device, widths |-> sc.widths,
                     gaps |-> IF "gaps" \in DOMAIN sc THEN sc.gaps
                                                      ELSE {FrameGap},
                     teardowns |-> IF "teardowns" \in DOMAIN sc
                                   THEN sc.teardowns ELSE 0,
                     torn |-> FALSE,
                     lifts |-> IF "lifts" \in DOMAIN sc THEN sc.lifts ELSE 0,
                     unmounts |-> IF "unmounts" \in DOMAIN sc
                                  THEN sc.unmounts ELSE 0,
                     restarts |-> IF "restarts" \in DOMAIN sc
                                  THEN sc.restarts ELSE 0]
           /\ trace = EmptyTrace("init")

Init == \E sc \in Scenarios : InitWith(sc)

InitRound == \E sc \in RoundScenarios : InitWith(sc)

InitDrop == \E sc \in DropScenarios : InitWith(sc)

InitStick == \E sc \in StickScenarios : InitWith(sc)

InitResize == \E sc \in ResizeScenarios : InitWith(sc)

InitJoy == \E sc \in JoyScenarios : InitWith(sc)

InitClock == \E sc \in ClockScenarios : InitWith(sc)

\* --------------------------------------------------------------- actions

StartClick ==
    /\ env.idle = 0 /\ env.starts > 0
    /\ startGameWithCountdown
    /\ \E n \in {0, 1} : env' = [env EXCEPT !.starts = @ - 1, !.idle = n]
    /\ trace' = EmptyTrace("click")
    /\ UNCHANGED <<scaled, conveyor, targets, lifter, lifterTarget, lifterVel,
                   anchorX, items, obj, keys, analog, game, started, gameOver,
                   finalScore, gameOverFired, sinceSpawn, nextSpawnDelay,
                   lastTsSet, endCount>>
    /\ UNCHANGED <<saving, inflight, sink, joy, anim>>

CountdownTick ==
    /\ env.idle = 0
    /\ countdownTick
    /\ trace' = EmptyTrace("tick")
    /\ UNCHANGED <<scaled, conveyor, targets, lifter, lifterTarget, lifterVel,
                   anchorX, items, obj, keys, analog, game, started, gameOver,
                   finalScore, gameOverFired, sinceSpawn, nextSpawnDelay,
                   lastTsSet, endCount, env>>
    /\ UNCHANGED <<saving, inflight, sink, joy, anim>>

StartRound ==
    /\ env.idle = 0
    /\ \E draws1 \in DrawSeqs([items |-> <<>>, obj |-> obj,
                                tr |-> EmptyTrace("start")]) :
         \E again \in BOOLEAN :
           \E draws2 \in (IF again
                          THEN DrawSeqs(spawnItem([items |-> <<>>, obj |-> obj,
                                                   tr |-> EmptyTrace("start")],
                                                  scaled.w, conveyor, draws1))
                          ELSE {<<>>}) :
             \E delay \in env.delays :
                startRound(draws1, again, draws2, delay)
    /\ After(env)
    /\ UNCHANGED <<scaled, conveyor, targets, lifterTarget, lifterVel, anchorX,
                   analog, finalScore, lastTsSet>>
    /\ sink' = NoSink
    /\ UNCHANGED <<saving, inflight, joy, anim>>

ToggleVacuum ==
    /\ env.idle = 0 /\ env.toggles > 0 /\ started
    /\ toggleVacuum
    /\ After([env EXCEPT !.toggles = @ - 1])
    /\ UNCHANGED <<scaled, conveyor, targets, lifterTarget, lifterVel, anchorX,
                   items, keys, analog, game, started, countdown, intervals, gameOver,
                   finalScore, gameOverFired, sinceSpawn, nextSpawnDelay,
                   lastTsSet, endCount>>
    /\ UNCHANGED <<saving, inflight, sink, joy, anim>>

\* The space bar or the vacuum button while no round is on: before Start,
\* during the countdown, after Play Again.
ToggleOutside ==
    /\ env.idle = 0 /\ env.toggles > 0 /\ ~started
    /\ toggleVacuum
    /\ \E n \in {0, 1} : env' = [env EXCEPT !.toggles = @ - 1, !.idle = n]
    /\ UNCHANGED <<scaled, conveyor, targets, lifterTarget, lifterVel, anchorX,
                   items, keys, analog, game, started, countdown, intervals, gameOver,
                   finalScore, gameOverFired, sinceSpawn, nextSpawnDelay,
                   lastTsSet, endCount>>
    /\ UNCHANGED <<saving, inflight, sink, joy, anim>>

Key ==
    /\ env.idle = 0 /\ env.presses > 0 /\ started
    /\ \E k \in env.dirs : onKey(k, ~keys[k])
    /\ After([env EXCEPT !.presses = @ - 1])
    /\ trace' = EmptyTrace("key")
    /\ UNCHANGED <<scaled, conveyor, targets, lifter, lifterTarget, lifterVel,
                   anchorX, items, obj, analog, game, started, countdown, intervals,
                   gameOver, finalScore, gameOverFired, sinceSpawn,
                   nextSpawnDelay, lastTsSet, endCount>>
    /\ UNCHANGED <<saving, inflight, sink, joy, anim>>

Resize ==
    /\ env.idle = 0 /\ env.resizes > 0 /\ started
    /\ \E w \in env.widths : onResize(w)
    /\ After([env EXCEPT !.resizes = @ - 1])
    /\ UNCHANGED <<lifterVel, items, keys, analog, game, started, countdown, intervals,
                   gameOver, finalScore, gameOverFired, sinceSpawn,
                   nextSpawnDelay, lastTsSet, endCount>>
    /\ UNCHANGED <<saving, inflight, sink, joy, anim>>

\* A pointer event on the joystick.
Stick ==
    /\ env.idle = 0 /\ env.sticks > 0 /\ started /\ joy.mounted
    /\ \E p \in env.points :
          \/ onPointerDown(p[1], p[2])
          \/ onPointerMove(p[1], p[2])
    /\ After([env EXCEPT !.sticks = @ - 1])
    /\ trace' = EmptyTrace("stick")
    /\ UNCHANGED <<scaled, conveyor, targets, lifter, lifterTarget, lifterVel,
                   anchorX, items, obj, keys, game, started, countdown, intervals,
                   gameOver, finalScore, gameOverFired, sinceSpawn,
                   nextSpawnDelay, lastTsSet, endCount, saving, inflight,
                   sink, anim>>

\* A pointer leaves the joystick, lifted or cancelled.
PointerUp ==
    /\ env.idle = 0 /\ env.lifts > 0 /\ joy.mounted /\ joy.down > 0
    /\ onPointerUp
    /\ After([env EXCEPT !.lifts = @ - 1])
    /\ trace' = EmptyTrace("lift")
    /\ UNCHANGED <<scaled, conveyor, targets, lifter, lifterTarget, lifterVel,
                   anchorX, items, obj, keys, game, started, countdown, intervals,
                   gameOver, finalScore, gameOverFired, sinceSpawn,
                   nextSpawnDelay, lastTsSet, endCount, saving, inflight,
                   sink, anim>>

\* A frame callback of a drag loop of the joystick.
JoyTick ==
    /\ tick
    /\ trace' = EmptyTrace("joytick")
    /\ UNCHANGED <<scaled, conveyor, targets, lifter, lifterTarget, lifterVel,
                   anchorX, items, obj, keys, game, started, countdown, intervals,
                   gameOver, finalScore, gameOverFired, sinceSpawn,
                   nextSpawnDelay, lastTsSet, endCount, saving, inflight,
                   sink, env, anim>>

\* The controls are taken off the page.
Unmount ==
    /\ env.idle = 0 /\ env.unmounts > 0 /\ joy.mounted
    /\ unmountJoystick
    /\ After([env EXCEPT !.unmounts = @ - 1])
    /\ trace' = EmptyTrace("unmount")
    /\ UNCHANGED <<scaled, conveyor, targets, lifter, lifterTarget, lifterVel,
                   anchorX, items, obj, keys, analog, game, started,
                   countdown, intervals, gameOver, finalScore, gameOverFired, sinceSpawn,
                   nextSpawnDelay, lastTsSet, endCount, saving, inflight,
                   sink, anim>>

\* The component is unmounted, at any moment: its buttons, keys and
\* controls go with it.
Teardown ==
    /\ env.teardowns > 0 /\ anim.running
    /\ anim' = teardown(anim)
    /\ env' = [env EXCEPT !.teardowns = 0, !.torn = TRUE, !.starts = 0,
                          !.toggles = 0, !.presses = 0, !.resizes = 0,
                          !.saves = 0, !.sticks = 0, !.lifts = 0,
                          !.unmounts = 0, !.restarts = 0]
    /\ trace' = EmptyTrace("teardown")
    /\ UNCHANGED <<scaled, conveyor, targets, lifter, lifterTarget, lifterVel,
                   anchorX, items, obj, keys, analog, game, started,
                   countdown, intervals, gameOver, finalScore, gameOverFired, sinceSpawn,
                   nextSpawnDelay, lastTsSet, endCount, saving, inflight,
                   sink, joy>>

\* The Restart button of the HUD, at any moment.
HudRestart ==
    /\ env.idle = 0 /\ env.restarts > 0
    /\ onRestart
    /\ \E n \in {0, 1} : env' = [env EXCEPT !.restarts = @ - 1, !.idle = n]
    /\ trace' = EmptyTrace("restart")
    /\ UNCHANGED <<scaled, conveyor, targets, lifter, lifterTarget, lifterVel,
                   anchorX, items, obj, keys, analog, finalScore, sinceSpawn,
                   nextSpawnDelay, lastTsSet, endCount>>
    /\ UNCHANGED <<inflight, sink, joy, anim>>

RestartGame ==
    /\ env.idle = 0 /\ ~env.torn
    /\ restartGame
    /\ \E n \in {0, 1} : env' = [env EXCEPT !.idle = n]
    /\ trace' = EmptyTrace("restart")
    /\ UNCHANGED <<scaled, conveyor, targets, lifter, lifterTarget, lifterVel,
                   anchorX, items, obj, keys, analog, finalScore, sinceSpawn,
                   nextSpawnDelay, lastTsSet, endCount>>
    /\ UNCHANGED <<inflight, sink, joy, anim>>

SaveScore ==
    /\ env.idle = 0 /\ env.saves > 0
    /\ \E via \in {"click", "touch"} : onSave(via)
    /\ After([env EXCEPT !.saves = @ - 1])
    /\ trace' = EmptyTrace("save")
    /\ UNCHANGED <<scaled, conveyor, targets, lifter, lifterTarget, lifterVel,
                   anchorX, items, obj, keys, analog, game, started, countdown, intervals,
                   gameOver, finalScore, gameOverFired, sinceSpawn,
                   nextSpawnDelay, lastTsSet, endCount, joy, anim>>

\* The insert returns at any moment, between two frames.
SaveScoreDone ==
    /\ \E outcome \in InsertOutcomes : saveScoreDone(outcome)
    /\ trace' = EmptyTrace("saved")
    /\ UNCHANGED <<scaled, conveyor, targets, lifter, lifterTarget, lifterVel,
                   anchorX, items, obj, keys, analog, countdown, intervals, finalScore,
                   sinceSpawn, nextSpawnDelay, lastTsSet, endCount, env, joy,
                   anim>>

Next ==
    \/ Loop
    \/ StartClick
    \/ CountdownTick
    \/ StartRound
    \/ ToggleVacuum
    \/ Key
    \/ Resize

Spec == Init /\ [][Next]_vars

\* A whole round and the next one.
NextRound ==
    \/ Loop
    \/ StartClick
    \/ CountdownTick
    \/ StartRound
    \/ ToggleVacuum
    \/ RestartGame
    \/ SaveScore
    \/ SaveScoreDone

SpecRound == InitRound /\ [][NextRound]_vars

\* A drop near the belt.
NextDrop ==
    \/ Loop
    \/ StartClick
    \/ CountdownTick
    \/ StartRound
    \/ ToggleVacuum
    \/ Key

SpecDrop == InitDrop /\ [][NextDrop]_vars

\* A player on the joystick.
NextStick ==
    \/ Loop
    \/ StartClick
    \/ CountdownTick
    \/ StartRound
    \/ Key
    \/ Stick

SpecStick == InitStick /\ [][NextStick]_vars

\* A window that is resized during the round.
NextResize ==
    \/ Loop
    \/ StartClick
    \/ CountdownTick
    \/ StartRound
    \/ ToggleVacuum
    \/ Resize

SpecResize == InitResize /\ [][NextResize]_vars

\* Fingers on the joystick.
NextJoy ==
    \/ Loop
    \/ StartClick
    \/ CountdownTick
    \/ StartRound
    \/ Stick
    \/ PointerUp
    \/ JoyTick
    \/ Unmount

SpecJoy == InitJoy /\ [][NextJoy]_vars

\* Frames at uneven timestamps and whole rounds.
NextClock ==
    \/ Loop
    \/ StartClick
    \/ CountdownTick
    \/ StartRound
    \/ ToggleVacuum
    \/ RestartGame
    \/ SaveScore
    \/ SaveScoreDone
    \/ Teardown

SpecClock == InitClock /\ [][NextClock]_vars

\* ------------------------------------------------------------ properties

\* The items of the active set.
Active == {items[k] : k \in 1..Len(items)}

\* C1: at every frame boundary (after every update and every toggleVacuum)
\* no item of the active set is both grabbed and carrying a landingY, so
\* each is in exactly one of the modes grabbed, falling, sliding.
C1_ModeExclusive ==
    \A o \in Active : ~(obj[o].grabbed /\ obj[o].landingY # Undef)

\* An update has just picked a falling item up again: the one case in which
\* the grabbed flag is set on an item that carried a landingY.
C1_Witness ==
    /\ trace.kind = "update"
    /\ trace.probe.wasFalling
    /\ trace.probe.grabbed \in Active
    /\ obj[trace.probe.grabbed].grabbed

\* C2: a fall is evaluated exactly once, however many updates run after the
\* item reached its landingY: every landing evaluation (and with it every
\* score change) is the first of its fall, no item has had more than one
\* in its current fall, and an item whose landing is marked evaluated has
\* had exactly one.
C2_LandingOnce ==
    /\ \A i \in 1..Len(trace.landed) : trace.landed[i].nth = 1
    /\ \A o \in DOMAIN obj :
          /\ obj[o].evals <= 1
          /\ obj[o].landingEvaluated => obj[o].evals = 1

\* An update ran over an item that had already landed and been evaluated,
\* and evaluated nothing.
C2_Witness ==
    /\ trace.kind = "update"
    /\ trace.landed = <<>>
    /\ \E o \in Active : /\ obj[o].landingEvaluated
                         /\ ~obj[o].grabbed
                         /\ obj[o].y = obj[o].landingY
                         /\ obj[o].age = 2

RECURSIVE SumDelta(_, _)
SumDelta(landed, i) ==
    IF i > Len(landed) THEN 0 ELSE landed[i].delta + SumDelta(landed, i + 1)

\* The score rule, stated on one landing.
RuleDelta(rec) ==
    IF rec.target = "belt" THEN 0
    ELSE IF rec.target = rec.type THEN 100 ELSE -50

\* C3: the score changes only by the landings of an update: +100 for a
\* landing on the target of the item's type, -50 for a landing on another
\* target, 0 for a landing on the belt; no other step changes it during a
\* round (the start of a round sets it to 0).
C3_ScoreOnlyByLanding ==
    [][IF trace'.kind = "update"
       THEN /\ \A i \in 1..Len(trace'.landed) :
                  trace'.landed[i].delta = RuleDelta(trace'.landed[i])
            /\ game'.score = game.score + SumDelta(trace'.landed, 1)
       ELSE \/ game'.score = game.score
            \/ (trace'.kind \in {"start", "restart"} /\ game'.score = 0)]_vars

\* An update has just scored a landing on a target of another type.
C3_Witness ==
    /\ trace.kind = "update"
    /\ \E i \in 1..Len(trace.landed) :
          /\ trace.landed[i].target # "belt"
          /\ trace.landed[i].target # trace.landed[i].type
    /\ game.score < 0

\* The candidates of the last grab probe that were within reach: their
\* indices in iteration order.  `thr` is twice the threshold, so d < thr / 2
\* is 4 * d^2 < thr^2.
InReach ==
    LET thr2 == Max(480, (Min(lifter.w, lifter.h) * (IF isFullscreen THEN 15 ELSE 12)) \div 10)
    IN {k \in 1..Len(trace.probe.cand) :
            /\ ~trace.probe.cand[k].grabbed
            /\ 4 * trace.probe.cand[k].d2 < thr2 * thr2}

\* C5: when update probes for a grab (vacuum on, nothing held) and no
\* non-grabbed item is nearer to the suction point than the reach threshold
\* max(24, min(lifterW, lifterH) * reachFactor), nothing is grabbed in that
\* update and lifter.holding stays empty.
C5_NoGrabOutOfReach ==
    (trace.kind = "update" /\ trace.probe.active /\ InReach = {})
        => /\ lifter.holding = 0
           /\ \A o \in Active : ~obj[o].grabbed

\* A probe with items on the belt, none of them within reach.
C5_Witness ==
    /\ trace.kind = "update"
    /\ trace.probe.active
    /\ InReach = {}
    /\ \E k \in 1..Len(trace.probe.cand) : trace.probe.cand[k].oid \in Active
    /\ lifter.holding = 0

\* The candidate the rule picks: minimum distance, the earliest on a tie.
Pick ==
    CHOOSE k \in InReach :
        \A j \in InReach :
            \/ trace.probe.cand[k].d2 < trace.probe.cand[j].d2
            \/ (trace.probe.cand[k].d2 = trace.probe.cand[j].d2 /\ k <= j)

\* C6: when update probes for a grab and at least one non-grabbed item is
\* within reach, exactly one item becomes grabbed in that update: the one at
\* minimum distance, the earliest in iteration order on a tie; at the end of
\* the update lifter.holding is that item.
C6_GrabsNearest ==
    (trace.kind = "update" /\ trace.probe.active /\ InReach # {})
        => /\ lifter.holding = trace.probe.cand[Pick].oid
           /\ obj[lifter.holding].grabbed
           /\ \A o \in Active : obj[o].grabbed => o = lifter.holding

\* A probe with two items within reach, the nearer one later in the array.
C6_Witness ==
    /\ trace.kind = "update"
    /\ trace.probe.active
    /\ Cardinality(InReach) >= 2
    /\ \E j \in InReach : j < Pick
    /\ lifter.holding = trace.probe.cand[Pick].oid

Falling(it) == ~it.grabbed /\ it.landingY # Undef

\* C7 as stated: an item leaves the Falling mode only by deletion or by
\* landing on the belt; no step takes a falling item to Grabbed.
C7_NoFallingToGrabbed ==
    [][\A o \in Active :
          (Falling(obj[o]) /\ o \in DOMAIN obj') => ~obj'[o].grabbed]_vars

\* The landing records of the step just taken that name item o.
LandedBelt(o) ==
    \E i \in 1..Len(trace'.landed) :
        trace'.landed[i].oid = o /\ trace'.landed[i].target = "belt"

Removed(o) ==
    \E i \in 1..Len(trace'.landed) :
        trace'.landed[i].removed = o /\ trace'.landed[i].target # "belt"

\* C7 (amended): a falling item stays falling, or is deleted by a landing on
\* a target (or the start of a new round), or slides again after landing on
\* the belt, or is grabbed again: the grab phase of an update with vacuum on
\* and nothing held picks it as the nearest item within reach, and it is
\* then held with its landing fields cleared.
C7_FallingExits ==
    [][\A o \in Active :
          Falling(obj[o]) =>
             IF o \in {items'[k] : k \in 1..Len(items')}
             THEN \/ Falling(obj'[o]) /\ ~LandedBelt(o)
                  \/ /\ LandedBelt(o)
                     /\ ~obj'[o].grabbed
                     /\ obj'[o].landingY = Undef
                     /\ obj'[o].vx = conveyor.speed
                  \/ /\ trace'.kind = "update"
                     /\ trace'.probe.active
                     /\ trace'.probe.grabbed = o
                     /\ lifter.vacuum /\ lifter.holding = 0
                     /\ lifter'.holding = o
                     /\ obj'[o].grabbed
                     /\ obj'[o].landingY = Undef
             ELSE Removed(o) \/ trace'.kind = "start"]_vars

\* An item that was falling is held again: the vacuum was switched back on
\* before it landed.
C7_Witness ==
    /\ trace.kind = "update"
    /\ trace.probe.wasFalling
    /\ lifter.vacuum
    /\ lifter.holding = trace.probe.grabbed
    /\ obj[lifter.holding].landingY = Undef
    /\ obj[lifter.holding].y < conveyor.y - obj[lifter.holding].h

\* C8: no item is removed by the despawn rule in the update in which it was
\* created, nor in the first update after its creation: every despawned
\* item has lived through an update before.
C8_NoFreshDespawn ==
    \A i \in 1..Len(trace.despawned) : trace.despawned[i].age >= 1

\* C9: an item spawned while a non-grabbed item exists has its right edge at
\* least max(60, 1.5 * newWidth) px left of the leftmost such item's left
\* edge (compared doubled, in dpx).
C9_SpawnGap ==
    \A i \in 1..Len(trace.spawned) :
        trace.spawned[i].hadExisting
            => 2 * (trace.spawned[i].leftmostX
                      - (trace.spawned[i].x + trace.spawned[i].w))
                 >= Max(1200, 3 * trace.spawned[i].w)

\* The despawn condition, stated on an item.
PastEdge(it) ==
    ~it.grabbed /\ (it.x > 10 * (scaled.w + 40) \/ it.x < -it.w - 400)

\* C10: at the end of every update no non-grabbed item is left beyond
\* canvasWidth + 40 or before -itemWidth - 40, and a despawned item never
\* comes back: whatever enters the active set is an item spawned in that
\* very step.
C10_Despawn ==
    /\ [](trace.kind = "update" => \A o \in Active : ~PastEdge(obj[o]))
    /\ [](\A i \in 1..Len(trace.despawned) :
              /\ trace.despawned[i].oid \notin Active
              /\ trace.despawned[i].oid # lifter.holding)
    /\ [][\A o \in {items'[k] : k \in 1..Len(items')} \ Active :
              \E i \in 1..Len(trace'.spawned) : trace'.spawned[i].oid = o]_vars

\* An update has just despawned an item that slid off the right edge.
C10_Witness ==
    /\ trace.kind = "update"
    /\ \E i \in 1..Len(trace.despawned) :
          /\ trace.despawned[i].x > 10 * (scaled.w + 40)
          /\ trace.despawned[i].age = 2

\* C4: in a round the round-ended transition runs exactly once: it has run
\* (latch set, finalScore recorded, game over shown) as soon as timeLeft is
\* at or below 0, and never a second time, however many frames follow.
C4_RoundEndsOnce ==
    /\ endCount <= 1
    /\ game.timeLeft <= 0
         => /\ endCount = 1
            /\ gameOverFired
            /\ gameOver
            /\ finalScore = game.score

\* A frame has run after the round ended, in the second round played.
C4_Witness ==
    /\ trace.kind = "frame"
    /\ game.timeLeft <= 0
    /\ endCount = 1
    /\ env.starts = 0
    /\ lifter.holding # 0

\* C11: the ids of the items present in the active set at the same time are
\* pairwise distinct.
C11_DistinctIds ==
    \A i, j \in 1..Len(items) : i # j => obj[items[i]].id # obj[items[j]].id

\* C12: when an update lands an item on a target, the item taken out of
\* the active set is the item that landed: it is gone after the update, and
\* every item the landing removed is the one that landed.
C12_RemovesLanded ==
    trace.kind = "update" =>
        \A i \in 1..Len(trace.landed) :
            trace.landed[i].target # "belt" =>
                /\ trace.landed[i].removed = trace.landed[i].oid
                /\ trace.landed[i].oid \notin Active

\* The targets whose horizontal extent contains x.
Containing(x) ==
    {i \in 1..Len(targets) :
        targets[i].x <= x /\ x <= targets[i].x + targets[i].w}

\* C13: when the vacuum is toggled off while an item is held, the landing is
\* resolved from the x of the suction point alone: over a target, the
\* landingTarget is a target containing that x and landingY = target.y -
\* item.h; over no target, landingTarget is null and landingY = conveyor.y -
\* item.h; either way nothing is held, and the item is not grabbed, has
\* vx = vy = 0, rotation 0 and landingEvaluated false.
C13_DropResolvesLanding ==
    [][(lifter.vacuum /\ lifter.holding # 0 /\ ~lifter'.vacuum) =>
         LET o == lifter.holding
             x == getHeadGeo(lifter, anchorX).bottomX
         IN /\ lifter'.holding = 0
            /\ ~obj'[o].grabbed
            /\ obj'[o].vx = 0 /\ obj'[o].vy = 0 /\ obj'[o].rotation = 0
            /\ ~obj'[o].landingEvaluated
            /\ IF Containing(x) # {}
               THEN \E i \in Containing(x) :
                        /\ obj'[o].landingTarget = targets[i]
                        /\ obj'[o].landingY = targets[i].y - obj[o].h
               ELSE /\ obj'[o].landingTarget = NoTarget
                    /\ obj'[o].landingY = conveyor.y - obj[o].h]_vars

\* The vacuum has just been switched off over a target: the released item
\* is set to land on it.
C13_Witness ==
    /\ trace.kind = "drop"
    /\ ~lifter.vacuum /\ lifter.holding = 0
    /\ \E o \in Active :
          /\ ~obj[o].grabbed
          /\ obj[o].landingTarget # NoTarget
          /\ obj[o].landingY = obj[o].landingTarget.y - obj[o].h
          /\ obj[o].y < obj[o].landingY

\* C14 as stated: an item falling with landingTarget null that reaches its
\* landingY in an update stays in the active set and is sliding at the end
\* of that update: landingY cleared, y = conveyor.y - h, vx = belt speed,
\* and the score unchanged by it.
C14_BeltLandingSlidesAlways ==
    [][trace'.kind = "update" =>
         \A i \in 1..Len(trace'.landed) :
            trace'.landed[i].target = "belt" =>
               LET o == trace'.landed[i].oid
               IN /\ o \in {items'[k] : k \in 1..Len(items')}
                  /\ trace'.landed[i].delta = 0
                  /\ ~obj'[o].grabbed
                  /\ obj'[o].landingY = Undef
                  /\ obj'[o].y = conveyor.y - obj'[o].h
                  /\ obj'[o].vx = conveyor.speed]_vars

\* C14 (amended): such an item stays in the active set with the score
\* unchanged by it, and ends the update sliding (landingY cleared, y =
\* conveyor.y - h, vx = belt speed) unless the grab phase of the same
\* update, with vacuum on and nothing held, picks it up: then it ends the
\* update held by the lifter, with landingY cleared.
C14_BeltLandingSlides ==
    [][trace'.kind = "update" =>
         \A i \in 1..Len(trace'.landed) :
            trace'.landed[i].target = "belt" =>
               LET o == trace'.landed[i].oid
               IN /\ obj[o].landingTarget = NoTarget
                  /\ obj[o].landingY # Undef
                  /\ o \in {items'[k] : k \in 1..Len(items')}
                  /\ trace'.landed[i].delta = 0
                  /\ obj'[o].landingY = Undef
                  /\ IF lifter.vacuum /\ lifter.holding = 0
                        /\ trace'.probe.grabbed = o
                     THEN obj'[o].grabbed /\ lifter'.holding = o
                     ELSE /\ ~obj'[o].grabbed
                          /\ obj'[o].y = conveyor.y - obj'[o].h
                          /\ obj'[o].vx = conveyor.speed]_vars

\* An update has just landed an item on the belt, and the item slides on:
\* the score is what it was, the item at the belt surface at belt speed.
C14_Witness ==
    /\ trace.kind = "update"
    /\ \E i \in 1..Len(trace.landed) :
          /\ trace.landed[i].target = "belt"
          /\ trace.landed[i].oid \in Active
          /\ ~obj[trace.landed[i].oid].grabbed
          /\ obj[trace.landed[i].oid].vx = conveyor.speed
          /\ obj[trace.landed[i].oid].y
                = conveyor.y - obj[trace.landed[i].oid].h
    /\ ~lifter.vacuum
    /\ game.score = 0

\* C15: an item gets a landingY (enters the Falling mode) only in the step
\* that switches the vacuum off while the lifter holds that item: no update,
\* spawn, despawn, key, resize or start gives a landingY to an item that
\* had none.
C15_FallingOnlyByDrop ==
    [][\A o \in DOMAIN obj' :
          (/\ obj'[o].landingY # Undef
           /\ (o \notin DOMAIN obj \/ obj[o].landingY = Undef \/ obj[o].grabbed))
          => /\ trace'.kind = "drop"
             /\ lifter.vacuum /\ ~lifter'.vacuum
             /\ lifter.holding = o
             /\ ~obj'[o].grabbed]_vars

\* The vacuum has just been switched off away from every target: the
\* released item is falling towards the belt.
C15_Witness ==
    /\ trace.kind = "drop"
    /\ ~lifter.vacuum /\ lifter.holding = 0
    /\ \E o \in Active :
          /\ Falling(obj[o])
          /\ obj[o].landingTarget = NoTarget
          /\ obj[o].landingY = conveyor.y - obj[o].h

\* The player has not touched the vacuum button since the page was loaded.
NeverToggled == \A sc \in RoundScenarios : env.toggles = sc.toggles

\* C16: as long as the vacuum has never been toggled on, no item is grabbed
\* and the score is 0 in every state, and once the clock has run out the
\* round-ended transition has run exactly once, reporting a final score
\* of 0.
C16_IdleRound ==
    NeverToggled =>
        /\ ~lifter.vacuum /\ lifter.holding = 0
        /\ \A o \in DOMAIN obj : ~obj[o].grabbed
        /\ game.score = 0
        /\ endCount <= 1
        /\ game.timeLeft <= 0 => (endCount = 1 /\ gameOver /\ finalScore = 0)

\* The clock of an untouched round has run out, with items on the belt,
\* and a frame has run after the end.
C16_Witness ==
    /\ NeverToggled
    /\ trace.kind = "frame"
    /\ game.timeLeft <= 0
    /\ endCount = 1 /\ gameOver
    /\ Active # {}

\* The direction of the digital flags, in thousandths.
Digital ==
    [x |-> 1000 * ((IF keys.right THEN 1 ELSE 0) - (IF keys.left THEN 1 ELSE 0)),
     y |-> 1000 * ((IF keys.down THEN 1 ELSE 0) - (IF keys.up THEN 1 ELSE 0))]

\* C17 as stated: update takes the analog vector as the intended direction
\* whenever its magnitude exceeds 0.1, and the digital flags only when the
\* magnitude does not exceed it.
C17_MagnitudeDeadzone ==
    [][trace'.kind = "update" =>
         trace'.dir = IF analog.x * analog.x + analog.y * analog.y > 100 * 100
                      THEN analog ELSE Digital]_vars

\* C17 (amended): update takes the analog vector as the intended direction
\* whenever the absolute value of one of its components exceeds 0.1, and
\* the digital flags (dirX = right - left, dirY = down - up) when neither
\* does.
C17_ComponentDeadzone ==
    [][trace'.kind = "update" =>
         trace'.dir = IF Abs(analog.x) > 100 \/ Abs(analog.y) > 100
                      THEN analog ELSE Digital]_vars

\* An update has just followed the joystick although an arrow key was held.
C17_Witness ==
    /\ trace.kind = "update"
    /\ Abs(analog.x) > 100 \/ Abs(analog.y) > 100
    /\ Digital # [x |-> 0, y |-> 0]
    /\ trace.dir = analog
    /\ trace.dir # Digital

\* C18: both components of the intended direction used by an update lie in
\* [-1, 1], whatever the pointer position on the joystick and the direction
\* flags.
C18_DirInRange ==
    trace.kind = "update" =>
        /\ Abs(trace.dir.x) <= 1000
        /\ Abs(trace.dir.y) <= 1000

\* C19: after every update the target of the lifter is within its clamps:
\* 10 <= target.x <= canvasWidth - lifterWidth - 10 and
\* 10 <= target.y <= conveyorY - lifterHeight - 10 (in dpx).
C19_TargetClamped ==
    trace.kind = "update" =>
        /\ 100 <= lifterTarget.x
        /\ lifterTarget.x <= 10 * scaled.w - lifter.w - 100
        /\ 100 <= lifterTarget.y
        /\ lifterTarget.y <= conveyor.y - lifter.h - 100

\* The fields of a new item other than its height on the belt: belt speed,
\* no rotation, no vertical velocity, no landing, not grabbed.
SpawnedAtRest(it) ==
    /\ it.vx = conveyor.speed
    /\ it.rotation = 0
    /\ it.vy = Undef
    /\ it.landingY = Undef /\ it.landingTarget = NoTarget
    /\ ~it.landingEvaluated
    /\ ~it.grabbed

\* C20 as stated: every item made by spawn() starts with its bottom edge
\* (y + h) equal to conveyor.y, at belt speed, with rotation 0 and no
\* vertical velocity, landingY or grabbed flag.
C20_SpawnFlush ==
    \A i \in 1..Len(trace.spawned) :
        /\ trace.spawned[i].it.y + trace.spawned[i].it.h = conveyor.y
        /\ SpawnedAtRest(trace.spawned[i].it)

\* C20 (amended): every item made by spawn() starts with its bottom edge
\* 4 px above the conveyor surface (y = conveyor.y - h - 4), at belt speed,
\* with rotation 0 and no vertical velocity, landingY or grabbed flag.
C20_SpawnAboveBelt ==
    \A i \in 1..Len(trace.spawned) :
        /\ trace.spawned[i].it.y + trace.spawned[i].it.h = conveyor.y - 40
        /\ SpawnedAtRest(trace.spawned[i].it)

\* An update has just spawned an item behind another one, and the new item
\* is in the active set as it was made.
C20_Witness ==
    /\ trace.kind = "update"
    /\ \E i \in 1..Len(trace.spawned) :
          /\ trace.spawned[i].hadExisting
          /\ trace.spawned[i].oid \in Active
          /\ obj[trace.spawned[i].oid].y = trace.spawned[i].it.y

\* C21: in every reachable state of a round the leaderboard insert has been
\* called at most once and the leaderboard refresh at most once since the
\* round started, whatever clicks and touches of the Save button arrive
\* before the insert resolves.
C21_SinkOnce ==
    /\ sink.inserts <= 1
    /\ sink.refreshes <= 1

\* The Save button was activated a second time in the same round while the
\* first insert was still in flight.
C21_Witness ==
    /\ trace.kind = "save"
    /\ env.saves = 0 /\ env.starts = 1
    /\ inflight = 1 /\ saving
    /\ sink.inserts = 1

\* C22: when the insert of a saved score fails, by an error result or by an
\* exception, saveScore hands the failure to its caller (it makes a call
\* upward in that step) and the final score of the round stays as it was.
C22_FailureReported ==
    [][(trace'.kind = "saved" /\ sink'.outcome \in {"error", "thrown"})
          => (sink'.calls # {} /\ finalScore' = finalScore)]_vars

\* An item that slides on the belt: neither grabbed nor falling.
Sliding(it) == ~it.grabbed /\ it.landingY = Undef

\* C23: a resize during a round puts the bottom edge of every sliding item
\* on the new belt (y = newConveyorY - h) in every layout profile, and
\* rescales the y of every held or falling item proportionally.
C23_ResizeSnaps ==
    [][trace'.kind = "resize" =>
          \A o \in Active :
             IF Sliding(obj[o])
             THEN obj'[o].y = conveyor'.y - obj'[o].h
             ELSE obj'[o].y = Div(obj[o].y * scaled'.h, scaled.h)]_vars

\* C24: once the joystick is unmounted, or no pointer is left on the pad, no
\* tick callback of a drag loop is scheduled any more, however many
\* pointer-down events came before.
C24_NoTickLeft ==
    (~joy.mounted \/ joy.down = 0) => joy.loops = 0

\* C25: a frame runs update only when the round was unpaused with
\* timeLeft > 0 at the start of the frame, and then with a dt between 0 and
\* 40 ms, whatever the gap between the timestamps of the frames; a frame is
\* one step, so update runs at most once in it.
C25_UpdateGated ==
    [][trace'.kind = "update" =>
          /\ ~game.paused /\ game.timeLeft > 0
          /\ trace'.dt \in 0..DT_CLAMP]_vars

\* update has run with the clamped dt, after a gap of LongGap ms.
C25_Witness ==
    /\ trace.kind = "update"
    /\ trace.dt = DT_CLAMP
    /\ LongGap \in env.gaps /\ FrameGap \notin env.gaps

\* The steps that begin or leave a round: the round start, Play Again, and
\* the return of the insert of a saved score.
RoundBoundary(kind) == kind \in {"start", "restart", "saved"}

\* C26: within a round timeLeft never increases; a frame that starts
\* unpaused with timeLeft > 0 runs update and takes exactly its clamped dt
\* off timeLeft, the frame that crosses zero included; every other frame
\* leaves timeLeft alone and runs no update; timeLeft is never below -40 ms.
C26_ClockRunsDown ==
    [][/\ game'.timeLeft >= -DT_CLAMP
       /\ ~RoundBoundary(trace'.kind) => game'.timeLeft <= game.timeLeft
       /\ trace'.kind \in {"update", "frame"} =>
             IF ~game.paused /\ game.timeLeft > 0
             THEN /\ trace'.kind = "update"
                  /\ trace'.dt \in 0..DT_CLAMP
                  /\ game'.timeLeft = game.timeLeft - trace'.dt
             ELSE /\ trace'.kind = "frame"
                  /\ game'.timeLeft = game.timeLeft]_vars

\* A frame after the one that took timeLeft below zero: the round has ended
\* and the frame has left the clock alone.
C26_Witness ==
    /\ trace.kind = "frame"
    /\ game.timeLeft < 0 /\ ~game.paused
    /\ gameOverFired

\* C27: a frame that starts paused or with timeLeft <= 0 leaves the items,
\* the lifter (position, target, velocity, anchor, holding, vacuum), the
\* score and timeLeft as they were; of the round's state it can only set the
\* round-ended latch, and that at most once in a round.
C27_IdleFrameInert ==
    [][(trace'.kind \in {"update", "frame"} /\ (game.paused \/ game.timeLeft <= 0))
          => /\ trace'.kind = "frame"
             /\ UNCHANGED <<items, obj, lifter, lifterTarget, lifterVel,
                            anchorX, game>>
             /\ gameOverFired => gameOverFired'
             /\ endCount' <= 1]_vars

\* A frame after the end of the round, with items still on the canvas.
C27_Witness ==
    /\ trace.kind = "frame"
    /\ game.timeLeft <= 0
    /\ items # <<>>
    /\ endCount = 1

\* C28: once the component is torn down the animation loop runs no update
\* and draws no frame, although frames were still to come at the moment of
\* the teardown.
C28_NoFrameAfterTeardown ==
    [][env.torn => trace'.kind \notin {"update", "frame"}]_vars

\* The component has just been torn down in the middle of a round, with
\* frames still to come.
C28_Witness ==
    /\ trace.kind = "teardown"
    /\ env.torn /\ env.idle > 0
    /\ ~game.paused /\ game.timeLeft > 0
    /\ ~anim.scheduled

\* C29: an update spawns exactly when the wall-clock time since the last
\* spawn (or the round start) has reached the threshold; it then restarts
\* the timer and draws a new threshold in 700..1400 ms, and otherwise leaves
\* both alone.  So one update spawns at most once (one or two items of one
\* spawnItem call) and a spawn by update comes at least 700 ms after the
\* spawn before it.
C29_SpawnTimer ==
    [][trace'.kind = "update" =>
          IF trace'.since >= nextSpawnDelay
          THEN /\ Len(trace'.spawned) \in {1, 2}
               /\ sinceSpawn' = 0
               /\ nextSpawnDelay' \in SPAWN_INTERVAL_MIN..SPAWN_INTERVAL_MAX
               /\ trace'.since >= SPAWN_INTERVAL_MIN
          ELSE /\ trace'.spawned = <<>>
               /\ sinceSpawn' = trace'.since
               /\ nextSpawnDelay' = nextSpawnDelay]_vars

\* An update has spawned as soon as the threshold was reached, at frames
\* OddGap ms apart, and drawn a threshold inside the interval.
C29_Witness ==
    /\ trace.kind = "update"
    /\ trace.spawned # <<>>
    /\ trace.since >= nextSpawnDelay
    /\ trace.since - OddGap < nextSpawnDelay
    /\ env.gaps = {OddGap}
    /\ nextSpawnDelay \notin {SPAWN_INTERVAL_MIN, SPAWN_INTERVAL_MAX}

\* C30: an update with dt > 0 moves every item that was in the active set
\* before it, not grabbed, and that the step neither removes nor grabs: a
\* sliding item advances by vx * dt and a falling item goes down or lands,
\* whatever other item lands and is removed in the same step.
C30_MotionOnce ==
    [][(trace'.kind = "update" /\ trace'.dt > 0) =>
          \A o \in Active :
             (/\ ~obj[o].grabbed
              /\ o \in {items'[k] : k \in 1..Len(items')}
              /\ ~obj'[o].grabbed)
             => IF Sliding(obj[o])
                THEN obj'[o].x = obj[o].x + Div(obj[o].vx * trace'.dt, 1000)
                ELSE \/ obj'[o].y > obj[o].y
                     \/ obj'[o].landingY = Undef
                     \/ obj'[o].y = obj'[o].landingY]_vars

C32_FallsStraightDown ==
    [][trace'.kind = "update" =>
          \A o \in Active :
             Falling(obj[o]) =>
                /\ (o \in Active' /\ ~obj'[o].grabbed)
                      => (obj'[o].y >= obj[o].y /\ obj'[o].x = obj[o].x)
                /\ (\E i \in 1..Len(trace'.landed) : trace'.landed[i].oid = o)
                      => obj[o].landingY >= obj[o].y]_vars

\* C33: every falling item of the active set has landingY =
\* landingTarget.y - h with landingTarget one of the targets now laid out,
\* or, with no landingTarget, landingY = conveyor.y - h; in every reachable
\* state, a resize during the fall included.
C33_LandingGeometry ==
    \A o \in Active :
       Falling(obj[o]) =>
          IF obj[o].landingTarget # NoTarget
          THEN /\ obj[o].landingY = obj[o].landingTarget.y - obj[o].h
               /\ \E i \in 1..Len(targets) : targets[i] = obj[o].landingTarget
          ELSE obj[o].landingY = conveyor.y - obj[o].h

\* The scenario of a drop from above a target: the player drives the lifter
\* down with the vacuum on, picks an item off the belt, lifts it with
\* ArrowUp and lets go over a target; the window may be resized on the way.
FallScenarios ==
    { [device |-> "desktop", widths |-> {BigCanvas, WideCanvas},
       w |-> BigCanvas, types |-> {"pcb"}, ids |-> "fresh",
       delays |-> {SPAWN_INTERVAL_MIN}, dirs |-> {"down", "up"},
       starts |-> 1, toggles |-> 2, presses |-> 3, resizes |-> 1,
       saves |-> 0, sticks |-> 0, points |-> {},
       bursts |-> {1, LongBurst}] }

InitFall == \E sc \in FallScenarios : InitWith(sc)

\* A drop from above a target, with a resize.
NextFall ==
    \/ Loop
    \/ StartClick
    \/ CountdownTick
    \/ StartRound
    \/ ToggleVacuum
    \/ Key
    \/ Resize

SpecFall == InitFall /\ [][NextFall]_vars

\* The scenario of a player who presses the vacuum button twice, at any
\* moment: before Start, during the countdown, in the round, after the time
\* is up and after Play Again, over two rounds.
GuardScenarios ==
    { [device |-> "desktop", widths |-> {SmallCanvas},
       w |-> SmallCanvas, types |-> {"bottle"}, ids |-> "fresh",
       delays |-> {SPAWN_INTERVAL_MAX}, dirs |-> {},
       starts |-> 2, toggles |-> 2, presses |-> 0, resizes |-> 0,
       saves |-> 0, sticks |-> 0, points |-> {},
       bursts |-> {1, RoundFrames}] }

InitGuard == \E sc \in GuardScenarios : InitWith(sc)

\* The vacuum button at any moment.
NextGuard ==
    \/ Loop
    \/ StartClick
    \/ CountdownTick
    \/ StartRound
    \/ ToggleVacuum
    \/ ToggleOutside
    \/ RestartGame

SpecGuard == InitGuard /\ [][NextGuard]_vars

\* C34: a call of toggleVacuum (a step that spends a toggle) made while the
\* round is paused, not started, or with timeLeft <= 0 leaves the vacuum
\* flag, the held item, the item set and every item's fields as they were.
C34_BlockedToggleInert ==
    [][(env'.toggles < env.toggles
          /\ (game.paused \/ ~started \/ game.timeLeft <= 0))
       => UNCHANGED <<lifter, items, obj>>]_vars

\* C34 witness: both presses of the scenario are spent, the time is up, and
\* the lifter still holds an item with the vacuum on: one press switched the
\* vacuum on, the other was made outside the running round and dropped
\* nothing.
C34_Witness ==
    /\ env.toggles = 0
    /\ game.timeLeft <= 0
    /\ lifter.vacuum
    /\ lifter.holding # 0
    /\ obj[lifter.holding].grabbed

\* The scenario of a drop at the last moment: the player switches the vacuum
\* on early in the round, holds the item until the clock has almost run
\* out and lets go; then plays again or saves the score.
FinalScenarios ==
    { [device |-> "desktop", widths |-> {SmallCanvas},
       w |-> SmallCanvas, types |-> {"bottle"}, ids |-> "fresh",
       delays |-> {SPAWN_INTERVAL_MAX}, dirs |-> {},
       starts |-> 2, toggles |-> 2, presses |-> 0, resizes |-> 0,
       saves |-> 1, sticks |-> 0, points |-> {},
       bursts |-> {1, LastFrames}] }

InitFinal == \E sc \in FinalScenarios : InitWith(sc)

\* A round that ends with a landing.
SpecFinal == InitFinal /\ [][NextRound]_vars

\* C35: the frame that sets the round-ended latch is the frame whose update
\* took timeLeft from above 0 to 0 or below, and it records finalScore = the
\* score after that update; from then on no step changes the score, except
\* the start of the next round, Play Again and the return of a saved score.
C35_FinalScoreFrozen ==
    [][/\ (~gameOverFired /\ gameOverFired')
            => /\ trace'.kind = "update"
               /\ game.timeLeft > 0 /\ game'.timeLeft <= 0
               /\ finalScore' = game'.score
       /\ (gameOverFired /\ ~RoundBoundary(trace'.kind))
            => game'.score = game.score]_vars

\* C35 witness: an item landed on a target in the very update that crossed
\* zero, and the final score recorded by that frame holds its points.
C35_Witness ==
    /\ trace.kind = "update"
    /\ trace.landed # <<>>
    /\ gameOverFired
    /\ game.timeLeft <= 0
    /\ finalScore # 0
    /\ finalScore = game.score

\* The scenario of a joystick left deflected: in the first round the player
\* drags the joystick, the controls may leave the page under the finger, an
\* arrow key may be down when the time runs out; then Play Again.
NeutralScenarios ==
    { [device |-> "desktop", widths |-> {BigCanvas},
       w |-> BigCanvas, types |-> {"pcb"}, ids |-> "fresh",
       delays |-> {SPAWN_INTERVAL_MAX}, dirs |-> {"left"},
       starts |-> 2, toggles |-> 0, presses |-> 1, resizes |-> 0,
       saves |-> 0, sticks |-> 1, lifts |-> 1, unmounts |-> 1,
       points |-> {<<0, -20>>},
       bursts |-> {1, RoundFrames}] }

InitNeutral == \E sc \in NeutralScenarios : InitWith(sc)

\* Two rounds with the joystick and a key.
NextNeutral ==
    \/ Loop
    \/ StartClick
    \/ CountdownTick
    \/ StartRound
    \/ Key
    \/ Stick
    \/ PointerUp
    \/ JoyTick
    \/ Unmount
    \/ RestartGame

SpecNeutral == InitNeutral /\ [][NextNeutral]_vars

\* C36: the step that starts a round, taken with no pointer on the joystick,
\* leaves every direction flag clear and the analog vector at (0, 0); and the
\* update of the first frame after it, with no input in between, does not
\* move the lifter target.
C36_NeutralAtStart ==
    [][/\ (trace'.kind = "start" /\ joy.down = 0)
            => (keys' = NoKeys /\ analog' = [x |-> 0, y |-> 0])
       /\ (trace.kind = "start" /\ joy.down = 0 /\ trace'.kind = "update")
            => lifterTarget' = lifterTarget]_vars

\* The scenario of the Restart button of the HUD: the player presses it once
\* at any moment (before Start, during the countdown, in the round) and may
\* press Start up to three times.
RestartScenarios ==
    { [device |-> "desktop", widths |-> {SmallCanvas},
       w |-> SmallCanvas, types |-> {"bottle"}, ids |-> "fresh",
       delays |-> {SPAWN_INTERVAL_MIN, SPAWN_INTERVAL_MAX}, dirs |-> {},
       starts |-> 3, toggles |-> 1, presses |-> 0, resizes |-> 0,
       saves |-> 0, sticks |-> 0, points |-> {}, restarts |-> 1,
       bursts |-> {1, FewFrames}] }

InitRestart == \E sc \in RestartScenarios : InitWith(sc)

\* Restart at any moment.
NextRestart ==
    \/ Loop
    \/ StartClick
    \/ CountdownTick
    \/ StartRound
    \/ ToggleVacuum
    \/ HudRestart

SpecRestart == InitRestart /\ [][NextRestart]_vars

\* C37: restartGame leaves the round paused with score 0 and timeLeft 60 s,
\* and a paused round is unpaused only by the round start at the end of a
\* countdown that the Start button began: the step is the interval callback
\* taken with the count at 1.
C37_RestartWaitsForStart ==
    [][/\ trace'.kind = "restart"
            => game' = [score |-> 0, timeLeft |-> 1000 * GAME_SECONDS,
                        paused |-> TRUE]
       /\ (game.paused /\ ~game'.paused)
            => (trace'.kind = "start" /\ countdown = 1)]_vars

\* The scenarios of frames that never stop: the player drops an item onto a
\* target while another item with the same id slides on the belt, or lifts
\* an item and drops it from above; whenever the player does nothing, frames
\* keep coming.
LiveScenarios ==
    { [device |-> "desktop", widths |-> {SmallCanvas},
       w |-> SmallCanvas, types |-> {"bottle"}, ids |-> "same",
       delays |-> {SPAWN_INTERVAL_MIN}, dirs |-> {},
       starts |-> 1, toggles |-> 2, presses |-> 0, resizes |-> 0,
       saves |-> 0, sticks |-> 0, points |-> {},
       bursts |-> {1, ShortBurst, LongBurst}] }

InitLive == \E sc \in LiveScenarios : InitWith(sc)

\* The player does nothing for a while: requestAnimationFrame keeps the
\* frames coming (loop schedules itself again at the end of every frame).
Rest ==
    /\ env.idle = 0 /\ anim.scheduled
    /\ env' = [env EXCEPT !.idle = RoundFrames]
    /\ UNCHANGED <<scaled, conveyor, targets, lifter, lifterTarget, lifterVel,
                   anchorX, items, obj, keys, analog, game, started,
                   countdown, intervals, gameOver, finalScore, gameOverFired,
                   sinceSpawn, nextSpawnDelay, lastTsSet, endCount, saving,
                   inflight, sink, joy, anim, trace>>

NextLive ==
    \/ Loop
    \/ StartClick
    \/ CountdownTick
    \/ StartRound
    \/ ToggleVacuum
    \/ Rest

\* Frames are delivered as long as one is scheduled: every burst of frames
\* owed comes to its end (the frame action is enabled exactly while
\* env.idle > 0 and each frame takes one off, so this is the weak fairness
\* of the frame), and a player who has nothing left to do lets the frames
\* pass again and again.
SpecLive ==
    /\ InitLive
    /\ [][NextLive]_vars
    /\ []<>(env.idle = 0)
    /\ SF_vars(Rest)

\* Some item of the active set is falling.
SomeFalling == \E o \in Active : Falling(obj[o])

\* C38: while the round keeps running, a state with a falling item is
\* followed by a state with no falling item in the active set (each was
\* removed, or slides again, or is held again); and no update leaves a
\* falling item resting at its landingY: after an update every falling item
\* of the active set is still above its landingY.
C38_FallingEnds ==
    /\ [](( SomeFalling /\ Runs(game)) => <>(~SomeFalling \/ ~Runs(game)))
    /\ [][trace'.kind = "update" =>
             \A o \in Active' :
                Falling(obj'[o]) => obj'[o].y < obj'[o].landingY]_vars

\* C39: once a round is on (started, unpaused) and frames keep coming with
\* no restart and no teardown, timeLeft reaches 0 or less and the
\* round-ended transition fires: the latch is set and the game is over.
C39_RoundEnds ==
    (started /\ ~game.paused /\ game.timeLeft = 1000 * GAME_SECONDS)
        ~> (game.timeLeft <= 0 /\ gameOverFired /\ gameOver)

\* C39 witness: the frame whose update crossed zero has set the latch.
C39_Witness ==
    /\ trace.kind = "update"
    /\ game.timeLeft <= 0
    /\ gameOverFired
    /\ gameOver
    /\ endCount = 1

====
